---- MODULE Spec2Model ----
(***************************************************************************)
(* A model of felipejac/automations-cookbook:                              *)
(*   - scripts/scraper.py : TemplateScraper._make_request (rate limiter,   *)
(*     bounded retries, exponential backoff), the two scrape_templates     *)
(*     loops, save_to_file and scrape_all_templates;                       *)
(*   - api/templates.py   : the serverless handler and load_templates;     *)
(*   - scripts/metadata_generator.py : generate_metadata and its helpers,  *)
(*     create_frontmatter;                                                 *)
(*   - scripts/tutorial_generator.py : _parse_sections and the loop of     *)
(*     generate_batch_tutorials (with that of generate_batch_metadata);    *)
(*   - scripts/main.py    : run_full_pipeline and main, with the batch     *)
(*     steps of tutorial_generator.py and metadata_generator.py.           *)
(* Specifications:                                                         *)
(*   Spec         a process calling _make_request through both scrapers    *)
(*   FairSpec     Spec with the fairness of a sequential, running process  *)
(*   SpecRetry    Spec with RETRY_ATTEMPTS possibly below zero             *)
(*   SpecScrape   one run of scrape_all_templates                          *)
(*   SpecApi      the API handler answering requests over the data files   *)
(*   SpecApiAny   SpecApi over data files that may hold null entries       *)
(*   SpecMeta     calls of generate_metadata on one tutorial, over days    *)
(*   SpecFront    one call of create_frontmatter                           *)
(*   SpecSections one call of _parse_sections                              *)
(*   SpecPipeline one run of main                                          *)
(*   SpecBatch    one call of a batch generator                            *)
(***************************************************************************)
EXTENDS Integers, Sequences, FiniteSets, TLC

VARIABLES
    RETRY_ATTEMPTS,     \* Config.RETRY_ATTEMPTS, read from the environment
    RATE_LIMIT_CALLS,   \* Config.RATE_LIMIT_CALLS
    RATE_LIMIT_PERIOD,  \* Config.RATE_LIMIT_PERIOD
    clock,              \* the limiter's clock, in seconds
    last_reset,         \* limiter: start of the current period
    num_calls,          \* limiter: calls counted in the current period
    pc,                 \* position of the (single, sequential) process
    retpc,              \* where _make_request returns to
    inst,               \* the scraper instance _make_request runs on
    attempt,            \* loop variable of the retry loop
    period_remaining,   \* carried by RateLimitException to sleep_and_retry
    response,           \* what _make_request handed to its caller
    escaped,            \* an exception left _make_request
    trace,              \* GETs and sleeps of the current invocation, in order
    gets,               \* clock times of the GETs since the limiter's last reset
    starts,             \* <<time, instance>> of the body starts in the current period
    limiterSleeps,      \* sleeps of sleep_and_retry in the current invocation
    invocations,        \* invocations made so far
    \* scrape_templates / scrape_all_templates
    template_elements,  \* what soup.find_all returned
    idx,                \* elements already passed by the extraction loop
    templates,          \* the list scrape_templates is building
    files,              \* OUTPUT_DIR: file name -> content
    results,            \* the dict scrape_all_templates returns
    failure,            \* per source: why scrape_templates raised, or "none"
    \* api/templates.py
    data,               \* the data directory the API reads
    event,              \* the event handed to handler
    reply,              \* what handler returned
    \* metadata_generator.py
    tutorial,           \* the tutorial dict handed to the generator
    now,                \* datetime.now(): the calendar day
    generated,          \* what the calls of generate_metadata returned, in order
    document,           \* the last call of create_frontmatter and its result
    \* main.py
    options,            \* the command line of main, and whether an API key is set
    step,               \* position of run_full_pipeline / main
    pipeline,           \* the results dict of run_full_pipeline
    outputs,            \* OUTPUT_DIR: the tutorials file and the metadata file
    llm,                \* the TutorialGenerator: whether built, LLM calls made
    raised,             \* the errors raised by the saves, by file
    exit_status,        \* the status main exited with
    \* tutorial_generator.py and the batch loops
    parsing,            \* the last call of _parse_sections and its result
    batch               \* a batch call: its list, the loop's position, its output

cfgvars == <<RETRY_ATTEMPTS, RATE_LIMIT_CALLS, RATE_LIMIT_PERIOD>>

reqvars == <<clock, last_reset, num_calls, pc, retpc, inst, attempt,
             period_remaining, response, escaped, trace, gets, starts,
             limiterSleeps, invocations>>

scrapevars == <<template_elements, idx, templates, files, results, failure>>

apivars == <<data, event, reply>>

metavars == <<tutorial, now, generated, document>>

pipevars == <<options, step, pipeline, outputs, llm, raised, exit_status>>

tutvars == <<parsing, batch>>

\* What the scraping process never touches
restvars == <<apivars, metavars, pipevars, tutvars>>

vars == <<cfgvars, reqvars, scrapevars, apivars, metavars, pipevars, tutvars>>

------------------------------------------------------------------------------
(* Bounds of the model *)

MaxAttempts == 4
MaxCalls == 2
MaxPeriod == 2
MaxInvocations == 3
MaxClock == 4
MaxElements == 2
MaxRecords == 2
MaxLimit == 3
MaxOver == 2
MaxDays == 2
MaxGenerated == 2
MaxKeys == 2
MaxItems == 1
MaxLines == 4
MaxBatch == 3

------------------------------------------------------------------------------
(* Values *)

\* What _make_request hands back: Python's None, or the requests.Response of the
\* GET that succeeded (its number in the invocation, and the scraper it ran on).
None == [kind |-> "None"]
NoValue == [kind |-> "NoValue"]
Response(n, i) == [kind |-> "Response", get |-> n, by |-> i]
Instances == {"n8n", "zapier"}

\* A file that does not exist; no event; no reply.
NoFile == [kind |-> "absent"]
NoEvent == [kind |-> "none"]
NoReply == [kind |-> "none"]

\* The request exceptions of an attempt, all of them subclasses of
\* requests.exceptions.RequestException: session.get raises Timeout (or
\* ConnectionError, handled alike), raise_for_status raises HTTPError.
RequestExceptions == {"Timeout", "HTTPError"}

\* A failure of session.get that is not a RequestException.
OtherExceptions == {"OtherError"}

GetOutcomes == {"ok"} \cup RequestExceptions \cup OtherExceptions

\* The GETs and the sleeps of a trace (positions).
GetEvents(tr) == {i \in 1..Len(tr) : tr[i][1] = "get"}
SleepEvents(tr) == {i \in 1..Len(tr) : tr[i][1] = "sleep"}
NumGets(tr) == Cardinality(GetEvents(tr))
NumSleeps(tr) == Cardinality(SleepEvents(tr))

RECURSIVE Pow2(_)
Pow2(n) == IF n <= 0 THEN 1 ELSE 2 * Pow2(n - 1)

\* (mutant) linear instead of exponential backoff.
BackoffDelay_Linear(a) == a + 1

\* time.sleep(2 ** attempt)
BackoffDelay(a) == Pow2(a)

\* (mutant) the limiter lets one call too many through.
ClampedCalls_OffByOne == RATE_LIMIT_CALLS + 1

\* ratelimit clamps the configured calls to at least one.
ClampedCalls == IF RATE_LIMIT_CALLS < 1 THEN 1 ELSE RATE_LIMIT_CALLS

------------------------------------------------------------------------------
(* Spec: a process calling _make_request *)

\* Config: int(os.getenv(...)) of each setting.
InitConfig ==
    /\ RETRY_ATTEMPTS \in 0..MaxAttempts
    /\ RATE_LIMIT_CALLS \in 1..MaxCalls
    /\ RATE_LIMIT_PERIOD \in 1..MaxPeriod

\* Config with no setting in the environment.
DefaultConfig ==
    /\ RETRY_ATTEMPTS = 3
    /\ RATE_LIMIT_CALLS = 10
    /\ RATE_LIMIT_PERIOD = 60

\* The limiter made by @limits, and no invocation yet.
InitRequest ==
    /\ clock = 0
    /\ last_reset = 0
    /\ num_calls = 0
    /\ pc = "idle"
    /\ retpc = "returned"
    /\ inst = "n8n"
    /\ attempt = 0
    /\ period_remaining = 0
    /\ response = NoValue
    /\ escaped = FALSE
    /\ trace = <<>>
    /\ gets = <<>>
    /\ starts = <<>>
    /\ limiterSleeps = 0
    /\ invocations = 0

\* Nothing scraped yet: OUTPUT_DIR holds no template file.
InitScrapeVars ==
    /\ template_elements = <<>>
    /\ idx = 0
    /\ templates = <<>>
    /\ files = [s \in Instances |-> NoFile]
    /\ results = [n8n |-> <<>>, zapier |-> <<>>, total |-> 0]
    /\ failure = [s \in Instances |-> "none"]

\* No request handled yet.
InitApiVars ==
    /\ data = [s \in Instances |-> NoFile]
    /\ event = NoEvent
    /\ reply = NoReply

\* No metadata generated yet.
NoTutorial == [kind |-> "none"]
NoDocument == [kind |-> "none"]
FirstDay == [year |-> 2024, month |-> 12, day |-> 30]
InitMetaVars ==
    /\ tutorial = NoTutorial
    /\ now = FirstDay
    /\ generated = <<>>
    /\ document = NoDocument

\* main has not started: the results dict of run_full_pipeline as it is first
\* built, an empty OUTPUT_DIR, no exit status (-1).
InitRun ==
    /\ step = "start"
    /\ pipeline = [scraping |-> [kind |-> "none"], tutorials |-> <<>>,
                   metadata |-> <<>>, success |-> FALSE]
    /\ outputs = [tutorials |-> NoFile, metadata |-> NoFile]
    /\ llm = [built |-> FALSE, calls |-> 0]
    /\ raised = {}
    /\ exit_status = -1

\* No section parsed, no batch started.
NoParsing == [called |-> FALSE, content |-> <<>>, sections |-> <<>>]
NoBatch == [kind |-> "none"]
InitTutVars ==
    /\ parsing = NoParsing
    /\ batch = NoBatch

\* No command line read.
InitPipeVars ==
    /\ options = [kind |-> "none"]
    /\ InitRun

Init ==
    /\ InitConfig
    /\ InitRequest
    /\ InitScrapeVars
    /\ InitApiVars
    /\ InitMetaVars
    /\ InitPipeVars
    /\ InitTutVars

\* Time passes between two invocations.
Tick ==
    /\ pc = "idle"
    /\ clock < MaxClock
    /\ clock' = clock + 1
    /\ UNCHANGED <<cfgvars, scrapevars, restvars,
                   last_reset, num_calls, pc, retpc, inst, attempt,
                   period_remaining, response, escaped, trace, gets, starts,
                   limiterSleeps, invocations>>

\* self._make_request(url) on one of the scrapers.
Invoke(i, ret) ==
    /\ inst' = i
    /\ retpc' = ret
    /\ pc' = "limiter"
    /\ attempt' = 0
    /\ period_remaining' = 0
    /\ response' = NoValue
    /\ escaped' = FALSE
    /\ trace' = <<>>
    /\ limiterSleeps' = 0
    /\ invocations' = invocations + 1
    /\ UNCHANGED <<cfgvars, clock, last_reset, num_calls, gets, starts>>

\* The process calls _make_request on either scraper.
Call ==
    /\ pc = "idle"
    /\ invocations < MaxInvocations
    /\ \E i \in Instances : Invoke(i, "returned")
    /\ UNCHANGED <<scrapevars, restvars>>

\* The caller has its answer; the frame of the invocation is gone.
Resume ==
    /\ pc = "returned"
    /\ pc' = "idle"
    /\ attempt' = 0
    /\ response' = NoValue
    /\ escaped' = FALSE
    /\ trace' = <<>>
    /\ limiterSleeps' = 0
    /\ UNCHANGED <<cfgvars, scrapevars, restvars, clock, last_reset, num_calls,
                   retpc, inst, period_remaining, gets, starts, invocations>>

\* The wrapper of @limits: one limiter object, made when the class body is
\* executed, so shared by every instance of every subclass.
limits ==
    /\ pc = "limiter"
    /\ LET remaining == RATE_LIMIT_PERIOD - (clock - last_reset)
           reset == remaining <= 0
           calls == (IF reset THEN 0 ELSE num_calls) + 1
       IN /\ last_reset' = IF reset THEN clock ELSE last_reset
          /\ num_calls' = calls
          /\ IF calls > ClampedCalls
                THEN /\ period_remaining' = remaining
                     /\ pc' = "rate_sleep"
                     /\ starts' = IF reset THEN <<>> ELSE starts
                ELSE /\ period_remaining' = 0
                     /\ pc' = "attempt"
                     /\ starts' = Append(IF reset THEN <<>> ELSE starts,
                                         <<clock, inst>>)
          /\ gets' = IF reset THEN <<>> ELSE gets
    /\ UNCHANGED <<cfgvars, scrapevars, restvars, clock,
                   retpc, inst, attempt, response, escaped, trace,
                   limiterSleeps, invocations>>

\* The wrapper of @sleep_and_retry: sleep what is left of the period, call again.
sleep_and_retry ==
    /\ pc = "rate_sleep"
    /\ clock' = clock + period_remaining
    /\ limiterSleeps' = limiterSleeps + 1
    /\ pc' = "limiter"
    /\ UNCHANGED <<cfgvars, scrapevars, restvars,
                   last_reset, num_calls, retpc, inst, attempt,
                   period_remaining, response, escaped, trace, gets, starts,
                   invocations>>

\* (mutant) one retry too few: `attempt < RETRY_ATTEMPTS - 2`.
AfterGet_GivesUpEarly(out) ==
    IF out = "ok" THEN "return_response"
    ELSE IF out \in RequestExceptions
         THEN IF attempt < RETRY_ATTEMPTS - 2 THEN "backoff" ELSE "return_none"
         ELSE "raise"

\* (mutant) a sleep after every failed GET, the last one included
AfterGet_SleepsAfterLast(out) ==
    IF out = "ok" THEN "return_response"
    ELSE IF out \in RequestExceptions THEN "backoff"
    ELSE "raise"

\* What is left of the retry loop after GET number attempt + 1 ended in `out`.
AfterGet(out) ==
    IF out = "ok" THEN "return_response"
    ELSE IF out \in RequestExceptions
         THEN IF attempt < RETRY_ATTEMPTS - 1 THEN "backoff" ELSE "return_none"
         ELSE "raise"

\* One pass of `for attempt in range(Config.RETRY_ATTEMPTS)`.
Attempt ==
    /\ pc = "attempt"
    /\ IF attempt >= RETRY_ATTEMPTS
          THEN \* the loop is over: the final `return None`
               /\ response' = None
               /\ pc' = retpc
               /\ UNCHANGED <<escaped, trace, gets>>
          ELSE \E out \in GetOutcomes :
               /\ trace' = Append(trace, <<"get", out>>)
               /\ gets' = Append(gets, clock)
               /\ CASE AfterGet(out) = "return_response" ->
                         /\ response' = Response(NumGets(trace'), inst)
                         /\ pc' = retpc
                         /\ UNCHANGED escaped
                    [] AfterGet(out) = "backoff" ->
                         /\ pc' = "backoff"
                         /\ UNCHANGED <<response, escaped>>
                    [] AfterGet(out) = "return_none" ->
                         /\ response' = None
                         /\ pc' = retpc
                         /\ UNCHANGED escaped
                    [] OTHER ->
                         /\ escaped' = TRUE
                         /\ pc' = retpc
                         /\ UNCHANGED response
    /\ UNCHANGED <<cfgvars, scrapevars, restvars, clock,
                   last_reset, num_calls, retpc, inst, attempt,
                   period_remaining, starts, limiterSleeps, invocations>>

\* time.sleep(2 ** attempt), then the next pass of the loop.
Backoff ==
    /\ pc = "backoff"
    /\ clock' = clock + BackoffDelay(attempt)
    /\ trace' = Append(trace, <<"sleep", BackoffDelay(attempt)>>)
    /\ attempt' = attempt + 1
    /\ pc' = "attempt"
    /\ UNCHANGED <<cfgvars, scrapevars, restvars,
                   last_reset, num_calls, retpc, inst, period_remaining,
                   response, escaped, gets, starts, limiterSleeps,
                   invocations>>

Next ==
    \/ Tick
    \/ Call
    \/ Resume
    \/ limits
    \/ sleep_and_retry
    \/ Attempt
    \/ Backoff

Spec == Init /\ [][Next]_vars

\* A sequential process: a step that can be taken (a sleep that ends, a GET that
\* returns or times out) is taken.
FairSpec == Spec /\ WF_vars(limits \/ sleep_and_retry \/ Attempt \/ Backoff)

\* The same process when RETRY_ATTEMPTS may also be set below zero.
InitRetry ==
    /\ RETRY_ATTEMPTS \in -1..MaxAttempts
    /\ RATE_LIMIT_CALLS \in 1..MaxCalls
    /\ RATE_LIMIT_PERIOD \in 1..MaxPeriod
    /\ InitRequest
    /\ InitScrapeVars
    /\ InitApiVars
    /\ InitMetaVars
    /\ InitPipeVars
    /\ InitTutVars

SpecRetry == InitRetry /\ [][Next]_vars

------------------------------------------------------------------------------
(* SpecScrape: scrape_all_templates, one run *)

\* Text is a sequence of characters; find() that matched nothing returns None.
NoTag == <<"<None>">>
Space == " "
Newline == "\n"
Whitespace == {Space, Newline, "\t"}

RECURSIVE lstrip(_)
lstrip(t) == IF t # <<>> /\ Head(t) \in Whitespace THEN lstrip(Tail(t)) ELSE t

RECURSIVE rstrip(_)
rstrip(t) ==
    IF t # <<>> /\ t[Len(t)] \in Whitespace
       THEN rstrip(SubSeq(t, 1, Len(t) - 1))
       ELSE t

\* str.strip()
strip(t) == rstrip(lstrip(t))

\* The listing elements a page can hold: the text of its <h3>, of its <p>, the
\* href of its <a> (NoTag where the tag is missing), and whether reading it
\* raises.
ElementFull == [h3 |-> <<Space, "A">>, p |-> <<"d", Space>>, a |-> <<"u">>,
                broken |-> FALSE]
ElementBare == [h3 |-> NoTag, p |-> NoTag, a |-> NoTag, broken |-> FALSE]
ElementBroken == [h3 |-> <<"B">>, p |-> NoTag, a |-> <<"v">>, broken |-> TRUE]
Elements == {ElementFull, ElementBare, ElementBroken}

\* The pages: every sequence of at most MaxElements listing elements.
Pages == UNION {[1..n -> Elements] : n \in 0..MaxElements}

\* soup.find_all('div', class_=..., limit=limit)
find_all(page, limit) == SubSeq(page, 1, IF limit < Len(page) THEN limit ELSE Len(page))

NoTemplate == [kind |-> "None"]

\* (mutant) a failed element yields a record instead of None.
extract_template_info_KeepsBroken(element, source) ==
    [title |-> <<"U", "n", "t", "i", "t", "l", "e", "d">>,
     description |-> <<>>, url |-> <<>>, source |-> source]

\* _extract_template_info(element) of the scraper of `source`
extract_template_info(element, source) ==
    IF element.broken
       THEN NoTemplate
       ELSE [title |-> IF element.h3 # NoTag THEN strip(element.h3)
                       ELSE <<"U", "n", "t", "i", "t", "l", "e", "d">>,
             description |-> IF element.p # NoTag THEN strip(element.p) ELSE <<>>,
             url |-> IF element.a # NoTag THEN element.a ELSE <<>>,
             source |-> source]

\* (mutant) count is the number of elements found, extracted or not
TemplateFile_CountsElements(source, ts) ==
    [kind |-> "json", source |-> source, count |-> Len(template_elements),
     templates |-> ts]

\* The document save_to_file is given by scrape_templates.
TemplateFile(source, ts) ==
    [kind |-> "json", source |-> source, count |-> Len(ts), templates |-> ts]

\* A file opened for writing whose json.dump did not finish.
PartialFile == [kind |-> "partial"]

\* open(filepath, 'w') / json.dump: done, open failed, or the write failed.
SaveOutcomes == {"saved", "open_failed", "write_failed"}

InitScrape ==
    /\ InitConfig
    /\ InitRequest
    /\ InitScrapeVars
    /\ InitApiVars
    /\ InitMetaVars
    /\ InitPipeVars
    /\ InitTutVars
    /\ pc = "idle"

\* scrape_all_templates, then <Source>TemplateScraper().scrape_templates(limit)
\* up to its call of _make_request: n8n first, Zapier second.
StartScrape ==
    /\ \/ pc = "idle" /\ inst' = "n8n"
       \/ pc = "n8n_done" /\ inst' = "zapier"
    /\ Invoke(inst', "fetched")
    /\ templates' = <<>>
    /\ template_elements' = <<>>
    /\ idx' = 0
    /\ UNCHANGED <<files, results, failure, restvars>>

\* (mutant) the error of one source ends scrape_all_templates
Fail_Stops(cause) ==
    /\ failure' = [failure EXCEPT ![inst] = cause]
    /\ pc' = "all_done"
    /\ UNCHANGED results

\* scrape_templates raised TemplateScraperError; scrape_all_templates logs it
\* and leaves results[source] as it was.
Fail(cause) ==
    /\ failure' = [failure EXCEPT ![inst] = cause]
    /\ pc' = IF inst = "n8n" THEN "n8n_done" ELSE "zapier_done"
    /\ UNCHANGED results

\* `if not response: raise`, then _parse_html and find_all.
Parse ==
    /\ pc = "fetched"
    /\ \/ /\ escaped \/ response = None
          /\ Fail("fetch")
          /\ UNCHANGED <<template_elements, idx, templates>>
       \/ /\ ~escaped /\ response # None
          /\ Fail("parse")
          /\ UNCHANGED <<template_elements, idx, templates>>
       \/ /\ ~escaped /\ response # None
          /\ \E page \in Pages, limit \in 1..MaxElements :
                template_elements' = find_all(page, limit)
          /\ idx' = 0
          /\ pc' = "extract"
          /\ UNCHANGED <<templates, results, failure>>
    \* the frame of the invocation of _make_request is gone
    /\ attempt' = 0
    /\ response' = NoValue
    /\ escaped' = FALSE
    /\ trace' = <<>>
    /\ limiterSleeps' = 0
    /\ UNCHANGED <<cfgvars, restvars, clock, last_reset, num_calls, retpc, inst,
                   period_remaining, gets, starts, invocations, files>>

\* One pass of `for idx, element in enumerate(template_elements)`.
Extract ==
    /\ pc = "extract"
    /\ IF idx < Len(template_elements)
          THEN LET template == extract_template_info(template_elements[idx + 1], inst)
               IN /\ templates' = IF template # NoTemplate
                                     THEN Append(templates, template)
                                     ELSE templates
                  /\ idx' = idx + 1
                  /\ pc' = "extract"
          ELSE /\ pc' = "save"
               /\ UNCHANGED <<templates, idx>>
    /\ UNCHANGED <<cfgvars, restvars, clock, last_reset, num_calls, retpc, inst,
                   attempt, period_remaining, response, escaped, trace, gets,
                   starts, limiterSleeps, invocations, template_elements, files,
                   results, failure>>

\* (mutant) the failure of the write is logged and the records are returned
save_to_file_Swallows ==
    /\ pc = "save"
    /\ \E out \in SaveOutcomes :
          /\ files' = [files EXCEPT ![inst] =
                          IF out = "saved" THEN TemplateFile(inst, templates)
                          ELSE IF out = "open_failed" THEN @ ELSE PartialFile]
          /\ failure' = IF out = "saved" THEN failure
                        ELSE [failure EXCEPT ![inst] = "save"]
    /\ results' = [results EXCEPT ![inst] = templates]
    /\ pc' = IF inst = "n8n" THEN "n8n_done" ELSE "zapier_done"
    /\ UNCHANGED <<cfgvars, restvars, clock, last_reset, num_calls, retpc, inst,
                   attempt, period_remaining, response, escaped, trace, gets,
                   starts, limiterSleeps, invocations, template_elements, idx,
                   templates>>

\* save_to_file({source, count, templates}, '<source>_templates.json'), and the
\* return of scrape_templates into results[source].
save_to_file ==
    /\ pc = "save"
    /\ \E out \in SaveOutcomes :
          CASE out = "saved" ->
                 /\ files' = [files EXCEPT ![inst] = TemplateFile(inst, templates)]
                 /\ results' = [results EXCEPT ![inst] = templates]
                 /\ pc' = IF inst = "n8n" THEN "n8n_done" ELSE "zapier_done"
                 /\ UNCHANGED failure
            [] out = "open_failed" ->
                 /\ Fail("save")
                 /\ UNCHANGED files
            [] OTHER ->
                 /\ Fail("save")
                 /\ files' = [files EXCEPT ![inst] = PartialFile]
    /\ UNCHANGED <<cfgvars, restvars, clock, last_reset, num_calls, retpc, inst,
                   attempt, period_remaining, response, escaped, trace, gets,
                   starts, limiterSleeps, invocations, template_elements, idx,
                   templates>>

\* results['total'] = len(results['n8n']) + len(results['zapier'])
Total ==
    /\ pc = "zapier_done"
    /\ results' = [results EXCEPT !.total = Len(results.n8n) + Len(results.zapier)]
    /\ pc' = "all_done"
    /\ UNCHANGED <<cfgvars, restvars, clock, last_reset, num_calls, retpc, inst,
                   attempt, period_remaining, response, escaped, trace, gets,
                   starts, limiterSleeps, invocations, template_elements, idx,
                   templates, files, failure>>

NextScrape ==
    \/ StartScrape
    \/ limits
    \/ sleep_and_retry
    \/ Attempt
    \/ Backoff
    \/ Parse
    \/ Extract
    \/ save_to_file
    \/ Total

SpecScrape == InitScrape /\ [][NextScrape]_vars

------------------------------------------------------------------------------
(* SpecApi: api/templates.py *)

\* A key that a dict does not hold (strings are sequences of characters)
Absent == <<"<absent>">>

\* dict.get(key, default) on a record
Get(t, key, default) == IF key \in DOMAIN t THEN t[key] ELSE default

\* Strings
Str_n8n == <<"n", "8", "n">>
Str_N8N == <<"N", "8", "N">>
Str_n8 == <<"n", "8">>
Str_zapier == <<"z", "a", "p", "i", "e", "r">>
Str_Zapier == <<"Z", "a", "p", "i", "e", "r">>
Str_unknown == <<"u", "n", "k", "n", "o", "w", "n">>

\* str.lower(), character by character
UpperCase == <<"A", "B", "C", "D", "E", "F", "G", "H", "I", "J", "K", "L", "M",
               "N", "O", "P", "Q", "R", "S", "T", "U", "V", "W", "X", "Y", "Z">>
LowerCase == <<"a", "b", "c", "d", "e", "f", "g", "h", "i", "j", "k", "l", "m",
               "n", "o", "p", "q", "r", "s", "t", "u", "v", "w", "x", "y", "z">>
LowerChar(c) ==
    IF \E i \in 1..Len(UpperCase) : UpperCase[i] = c
       THEN LowerCase[CHOOSE i \in 1..Len(UpperCase) : UpperCase[i] = c]
       ELSE c
lower(str) == [i \in 1..Len(str) |-> LowerChar(str[i])]

\* int(str): an optional sign, then one or more decimal digits
DigitChars == <<"0", "1", "2", "3", "4", "5", "6", "7", "8", "9">>
IsDigit(c) == \E i \in 1..10 : DigitChars[i] = c
DigitValue(c) == (CHOOSE i \in 1..10 : DigitChars[i] = c) - 1

RECURSIVE DigitsValue(_)
DigitsValue(ds) ==
    IF ds = <<>> THEN 0
    ELSE 10 * DigitsValue(SubSeq(ds, 1, Len(ds) - 1)) + DigitValue(ds[Len(ds)])

IsIntLiteral(str) ==
    LET ds == IF str # <<>> /\ Head(str) = "-" THEN Tail(str) ELSE str
    IN ds # <<>> /\ \A i \in 1..Len(ds) : IsDigit(ds[i])

ParseInt(str) ==
    IF Head(str) = "-" THEN 0 - DigitsValue(Tail(str)) ELSE DigitsValue(str)

\* params.get('limit', 100)
DefaultLimit == 100

\* The records of the data files. The n8n file holds records whose source is
\* spelled n8n, N8N or n8, or that have no source; the Zapier file holds records
\* whose source is spelled zapier or Zapier.
N8nRecords ==
    {[title |-> "a", source |-> Str_n8n], [title |-> "b", source |-> Str_N8N],
     [title |-> "c", source |-> Str_n8], [title |-> "d"]}
ZapierRecords ==
    {[title |-> "e", source |-> Str_zapier], [title |-> "f", source |-> Str_Zapier]}

Lists(S) == UNION {[1..n -> S] : n \in 0..MaxRecords}

\* A data file: absent, not a JSON object, a JSON object without 'templates',
\* or {source, count, templates}.
Malformed == [kind |-> "malformed"]
DataFiles(S) ==
    {NoFile, Malformed, [kind |-> "json"]}
    \cup {[kind |-> "json", count |-> Len(ts), templates |-> ts] : ts \in Lists(S)}

\* The built-in sample of load_templates
SampleTemplate ==
    [title |-> "Sample Template", description |-> "This is a sample template",
     source |-> Str_n8n, url |-> "https://example.com"]

\* One `try: ... templates.extend(data.get('templates', [])) except: pass`
Loaded(file) ==
    IF file.kind = "json" THEN Get(file, "templates", <<>>) ELSE <<>>

\* (mutant) no sample when nothing was loaded
load_templates_NoSample(d) == Loaded(d["n8n"]) \o Loaded(d["zapier"])

\* load_templates()
load_templates(d) ==
    LET all == Loaded(d["n8n"]) \o Loaded(d["zapier"])
    IN IF all = <<>> THEN <<SampleTemplate>> ELSE all

\* The events
Methods == {"OPTIONS", "GET", "POST", "get", "<absent>"}
SourceParams == {Absent, <<>>, Str_n8n, Str_N8N, Str_n8, Str_zapier}
LimitParams ==
    {Absent, <<"x">>, <<"1", "0">>}
    \cup {<<DigitChars[n + 1]>> : n \in 0..MaxLimit}
    \cup {<<"-", DigitChars[n + 1]>> : n \in 1..MaxLimit}
Events ==
    [httpMethod : Methods, source : SourceParams, limit : LimitParams]

\* The CORS headers of every reply
Headers ==
    [allow_origin |-> "*", allow_headers |-> "Content-Type",
     allow_methods |-> "GET, OPTIONS", content_type |-> "application/json"]

\* The body '' of the reply to OPTIONS
EmptyBody == [text |-> <<>>]

\* (mutant) the replies that report an error carry the content type alone
Reply_BareErrors(status, body) ==
    [kind |-> "returned", statusCode |-> status,
     headers |-> IF status = 200 THEN Headers
                 ELSE [content_type |-> "application/json"],
     body |-> body]

\* {'statusCode': status, 'headers': headers, 'body': body}
Reply(status, body) ==
    [kind |-> "returned", statusCode |-> status, headers |-> Headers, body |-> body]

\* An exception that left handler
Raised(message) == [kind |-> "raised", message |-> message]

\* str(e) of the ValueError of int()
IntError(str) == <<"invalid literal for int() with base 10", str>>

\* (mutant) `source_filter in t.get('source', '').lower()`
Matches_Substring(t, source_filter) ==
    LET src == lower(Get(t, "source", <<>>))
    IN \E i \in 0..Len(src) : \E j \in i..Len(src) :
          SubSeq(src, i + 1, j) = source_filter

\* t.get('source', '').lower() == source_filter
Matches(t, source_filter) == lower(Get(t, "source", <<>>)) = source_filter

\* (mutant) templates[:limit + 1]
Slice_OneMore(ts, limit) == SubSeq(ts, 1, IF limit + 1 < Len(ts) THEN limit + 1 ELSE Len(ts))

\* templates[:limit], negative limits counting from the end
Slice(ts, limit) ==
    IF limit >= 0
       THEN SubSeq(ts, 1, IF limit < Len(ts) THEN limit ELSE Len(ts))
       ELSE SubSeq(ts, 1, IF Len(ts) + limit > 0 THEN Len(ts) + limit ELSE 0)

\* The orders in which list(set(...)) can list a set
Orders(S) ==
    {f \in [1..Cardinality(S) -> S] : \A i, j \in 1..Cardinality(S) : f[i] = f[j] => i = j}

\* (mutant) list(...) without set(...)
SourceLists_NoSet(ts) == {[i \in 1..Len(ts) |-> Get(ts[i], "source", Str_unknown)]}

\* list(set(t.get('source', 'unknown') for t in templates))
SourceLists(ts) ==
    Orders({Get(ts[i], "source", Str_unknown) : i \in 1..Len(ts)})

\* (mutant) the limit is parsed before the try block
IntOrRaise_Unguarded(str) ==
    IF str = Absent THEN [ok |-> TRUE, value |-> DefaultLimit]
    ELSE IF IsIntLiteral(str) THEN [ok |-> TRUE, value |-> ParseInt(str)]
    ELSE [ok |-> FALSE, caught |-> FALSE, message |-> IntError(str)]

\* int(params.get('limit', 100)) inside the try block of handler
IntOrRaise(str) ==
    IF str = Absent THEN [ok |-> TRUE, value |-> DefaultLimit]
    ELSE IF IsIntLiteral(str) THEN [ok |-> TRUE, value |-> ParseInt(str)]
    ELSE [ok |-> FALSE, caught |-> TRUE, message |-> IntError(str)]

\* (mutant) the limit is applied to the loaded records, the filter after it
GetReplies_LimitFirst(e, d) ==
    LET source_filter == lower(IF e.source = Absent THEN <<>> ELSE e.source)
        limit == IntOrRaise(e.limit)
        cut == Slice(load_templates(d), limit.value)
        limited == IF source_filter # <<>>
                      THEN SelectSeq(cut, LAMBDA t : Matches(t, source_filter))
                      ELSE cut
    IN IF limit.ok
          THEN {Reply(200, [count |-> Len(limited), templates |-> limited,
                            sources |-> srcs]) : srcs \in SourceLists(limited)}
          ELSE {Reply(500, [error |-> limit.message])}

\* The try block of handler: the replies to a GET. t.get(...) raises
\* AttributeError on a record that is no dict (a JSON null), in the filter and
\* in the sources of the records returned.
GetReplies(e, d) ==
    LET source_filter == lower(IF e.source = Absent THEN <<>> ELSE e.source)
        limit == IntOrRaise(e.limit)
        loaded == load_templates(d)
        filtered == IF source_filter # <<>>
                       THEN SelectSeq(loaded, LAMBDA t : Matches(t, source_filter))
                       ELSE loaded
        limited == Slice(filtered, limit.value)
        HasNone(ts) == \E i \in 1..Len(ts) : ts[i] = None
    IN IF ~limit.ok
          THEN IF limit.caught
                  THEN {Reply(500, [error |-> limit.message])}
                  ELSE {Raised(limit.message)}
          ELSE IF (source_filter # <<>> /\ HasNone(loaded)) \/ HasNone(limited)
                  THEN {Reply(500, [error |-> <<"'NoneType' object has no attribute 'get'">>])}
                  ELSE {Reply(200, [count |-> Len(limited), templates |-> limited,
                                    sources |-> srcs]) : srcs \in SourceLists(limited)}

\* (mutant) the query is handled before the method is looked at
handler_QueryFirst(e, d) ==
    IF \E r \in GetReplies(e, d) : r.statusCode = 500 THEN GetReplies(e, d)
    ELSE IF e.httpMethod = "OPTIONS" THEN {Reply(200, EmptyBody)}
    ELSE IF e.httpMethod # "GET" THEN {Reply(405, [error |-> "Method not allowed"])}
    ELSE GetReplies(e, d)

\* handler(event, context): the replies it can give
handler(e, d) ==
    IF e.httpMethod = "OPTIONS" THEN {Reply(200, EmptyBody)}
    ELSE IF e.httpMethod # "GET" THEN {Reply(405, [error |-> "Method not allowed"])}
    ELSE GetReplies(e, d)

InitApi ==
    /\ DefaultConfig
    /\ InitRequest
    /\ InitScrapeVars
    /\ InitMetaVars
    /\ InitPipeVars
    /\ InitTutVars
    /\ data \in {[n8n |-> a, zapier |-> b] :
                    a \in DataFiles(N8nRecords), b \in DataFiles(ZapierRecords)}
    /\ event = NoEvent
    /\ reply = NoReply

\* One request answered by the function.
Handle ==
    /\ event = NoEvent
    /\ \E e \in Events :
          /\ event' = e
          /\ reply' \in handler(e, data)
    /\ UNCHANGED <<tutvars, cfgvars, reqvars, scrapevars, metavars, pipevars, data>>

\* The reply is delivered; the function keeps nothing between two requests.
Deliver ==
    /\ event # NoEvent
    /\ event' = NoEvent
    /\ reply' = NoReply
    /\ UNCHANGED <<tutvars, cfgvars, reqvars, scrapevars, metavars, pipevars, data>>

NextApi ==
    \/ Handle
    \/ Deliver

SpecApi == InitApi /\ [][NextApi]_vars

\* The function over any data directory: the n8n file may also hold entries
\* that are no dicts (JSON null), which the scrapers never write.
InitApiAny ==
    /\ DefaultConfig
    /\ InitRequest
    /\ InitScrapeVars
    /\ InitMetaVars
    /\ InitPipeVars
    /\ InitTutVars
    /\ data \in {[n8n |-> a, zapier |-> b] :
                    a \in DataFiles(N8nRecords \cup {None}),
                    b \in DataFiles(ZapierRecords)}
    /\ event = NoEvent
    /\ reply = NoReply

SpecApiAny == InitApiAny /\ [][NextApi]_vars

------------------------------------------------------------------------------
(* SpecMeta: scripts/metadata_generator.py *)

\* str[i:].startswith(p), and str[i:]
MatchAt(str, i, p) ==
    /\ i + Len(p) - 1 <= Len(str)
    /\ \A k \in 1..Len(p) : str[i + k - 1] = p[k]
From(str, i) == SubSeq(str, i, Len(str))

\* str.split(sep): the pieces between the occurrences of sep, scanned from the
\* left without overlap
RECURSIVE split(_, _)
split(str, sep) ==
    LET at == {i \in 1..Len(str) : MatchAt(str, i, sep)}
    IN IF at = {} THEN <<str>>
       ELSE LET i == CHOOSE i \in at : \A j \in at : i <= j
            IN <<SubSeq(str, 1, i - 1)>> \o split(From(str, i + Len(sep)), sep)

\* len(description) > 160, description[:157] + '...'
DescriptionLimit == 160
DescriptionKept == 157
BlankLine == <<Newline, Newline>>

\* (mutant) the text is cut at the limit and the ellipsis added after it
Truncated_CutAtLimit(text) ==
    IF Len(text) > DescriptionLimit
       THEN SubSeq(text, 1, DescriptionLimit) \o <<".", ".", ".">>
       ELSE text

\* if len(text) > 160: text = text[:157] + '...'
Truncated(text) ==
    IF Len(text) > DescriptionLimit
       THEN SubSeq(text, 1, DescriptionKept) \o <<".", ".", ".">>
       ELSE text

\* [p.strip() for p in content.split('\n\n') if p.strip()]
Paragraphs(content) ==
    LET pieces == split(content, BlankLine)
        stripped == [i \in 1..Len(pieces) |-> strip(pieces[i])]
    IN SelectSeq(stripped, LAMBDA p : p # <<>>)

\* MetadataGenerator._generate_description(tutorial)
\* ('' and a missing key are both falsy)
_generate_description(t) ==
    LET description == Get(t, "description", <<>>)
        content == Get(t, "content", <<>>)
    IN IF description # <<>> THEN Truncated(description)
       ELSE IF content # <<>> /\ Paragraphs(content) # <<>>
               THEN Truncated(Paragraphs(content)[1])
               ELSE <<"L", "e", "a", "r", "n", " ", "h", "o", "w", " ", "t", "o", " ", "s", "e", "t", " ", "u", "p", " ">>
                    \o <<"a", "n", "d", " ", "u", "s", "e", " ">>
                    \o Get(t, "title",
                           <<"t", "h", "i", "s", " ", "a", "u", "t", "o", "m", "a", "t", "i", "o", "n">>)

\* The order of Python's characters (code points), for sorted()
Alphabet ==
    <<Newline, Space, "'", ",", "-", ".">> \o DigitChars \o <<":">> \o UpperCase
    \o <<"_">> \o LowerCase

\* a < b on strings
RECURSIVE Before(_, _)
Before(a, b) ==
    IF a = <<>> THEN b # <<>>
    ELSE IF b = <<>> THEN FALSE
    ELSE IF Head(a) = Head(b) THEN Before(Tail(a), Tail(b))
    ELSE LET Code(c) == CHOOSE i \in 1..Len(Alphabet) : Alphabet[i] = c
         IN Code(Head(a)) < Code(Head(b))

\* sorted(list(aSet))
RECURSIVE sorted(_)
sorted(S) ==
    IF S = {} THEN <<>>
    ELSE LET m == CHOOSE m \in S : \A x \in S \ {m} : Before(m, x)
         IN <<m>> \o sorted(S \ {m})

\* xs[:n]
Take(xs, n) == SubSeq(xs, 1, IF n < Len(xs) THEN n ELSE Len(xs))

\* sub in str
Contains(str, sub) == \E i \in 1..(Len(str) + 1) : MatchAt(str, i, sub)

IsLetter(c) ==
    \E i \in 1..Len(LowerCase) : LowerCase[i] = c \/ UpperCase[i] = c

\* The maximal runs of word characters of a string, from left to right
WordRuns(str) ==
    LET IsWordChar(c) == IsLetter(c) \/ IsDigit(c) \/ c = "_"
        begins == {i \in 1..Len(str) :
                     IsWordChar(str[i]) /\ (i = 1 \/ ~IsWordChar(str[i - 1]))}
        ends == {j \in 1..Len(str) :
                   IsWordChar(str[j]) /\ (j = Len(str) \/ ~IsWordChar(str[j + 1]))}
        End(i) == CHOOSE j \in ends : j >= i /\ \A e \in ends : e >= i => j <= e
        Nth(k) == CHOOSE i \in begins : Cardinality({j \in begins : j <= i}) = k
    IN [k \in 1..Cardinality(begins) |-> SubSeq(str, Nth(k), End(Nth(k)))]

\* re.findall(r'\b[a-zA-Z]{4,}\b', str): the runs between two word boundaries
\* that are made of four letters or more
MinWordLength == 4
findall_words(str) ==
    SelectSeq(WordRuns(str),
              LAMBDA w : Len(w) >= MinWordLength /\ \A i \in 1..Len(w) : IsLetter(w[i]))

\* keywords.update(['automation', 'workflow', 'integration'])
CommonKeywords ==
    {<<"a", "u", "t", "o", "m", "a", "t", "i", "o", "n">>,
     <<"w", "o", "r", "k", "f", "l", "o", "w">>,
     <<"i", "n", "t", "e", "g", "r", "a", "t", "i", "o", "n">>}

\* MetadataGenerator._extract_keywords(tutorial)
TitleWords == 5
MaxKeywords == 10
_extract_keywords(t) ==
    LET source == Get(t, "source", <<>>)
        title == Get(t, "title", <<>>)
        words == Take(findall_words(lower(title)), TitleWords)
        keywords == (IF source # <<>> THEN {lower(source)} ELSE {})
                    \cup CommonKeywords
                    \cup {words[i] : i \in 1..Len(words)}
    IN Take(sorted(keywords), MaxKeywords)

integrations ==
    {<<"s", "l", "a", "c", "k">>,
     <<"e", "m", "a", "i", "l">>,
     <<"g", "m", "a", "i", "l">>,
     <<"g", "i", "t", "h", "u", "b">>,
     <<"t", "r", "e", "l", "l", "o">>,
     <<"a", "s", "a", "n", "a">>,
     <<"s", "a", "l", "e", "s", "f", "o", "r", "c", "e">>,
     <<"h", "u", "b", "s", "p", "o", "t">>,
     <<"m", "a", "i", "l", "c", "h", "i", "m", "p">>,
     <<"d", "r", "o", "p", "b", "o", "x">>,
     <<"g", "o", "o", "g", "l", "e">>}
actions ==
    {<<"n", "o", "t", "i", "f", "i", "c", "a", "t", "i", "o", "n">>,
     <<"s", "y", "n", "c">>,
     <<"b", "a", "c", "k", "u", "p">>,
     <<"r", "e", "m", "i", "n", "d", "e", "r">>,
     <<"a", "n", "a", "l", "y", "t", "i", "c", "s">>}

\* MetadataGenerator._generate_tags(tutorial)
_generate_tags(t) ==
    LET source == Get(t, "source", <<>>)
        title == lower(Get(t, "title", <<>>))
        tags == (IF source # <<>> THEN {source} ELSE {})
                \cup {w \in integrations \cup actions : Contains(title, w)}
    IN sorted(tags)

\* MetadataGenerator._determine_category(source)
_determine_category(source) ==
    LET key == lower(source)
    IN IF key = Str_n8n THEN "n8n Workflows"
       ELSE IF key = Str_zapier THEN "Zapier Integrations"
       ELSE IF key \in {<<"m", "a", "k", "e">>,
                        <<"i", "n", "t", "e", "g", "r", "o", "m", "a", "t">>}
               THEN "Make Scenarios"
       ELSE "Automation"

\* The digits of n, zero-padded to w places
RECURSIVE Digits(_, _)
Digits(n, w) ==
    IF w = 0 THEN <<>>
    ELSE Digits(n \div 10, w - 1) \o <<DigitChars[(n % 10) + 1]>>

\* (mutant) the date is written without its day
strftime_MonthOnly(d) == Digits(d.year, 4) \o <<"-">> \o Digits(d.month, 2)

\* datetime.strftime('%Y-%m-%d')
strftime(d) ==
    Digits(d.year, 4) \o <<"-">> \o Digits(d.month, 2) \o <<"-">> \o Digits(d.day, 2)

\* The calendar: the day after d
Tomorrow(d) ==
    LET leap == d.year % 4 = 0 /\ (d.year % 100 # 0 \/ d.year % 400 = 0)
        days == IF d.month = 2 THEN (IF leap THEN 29 ELSE 28)
                ELSE IF d.month \in {4, 6, 9, 11} THEN 30 ELSE 31
    IN
    IF d.day < days THEN [d EXCEPT !.day = d.day + 1]
    ELSE IF d.month < 12 THEN [d EXCEPT !.month = d.month + 1, !.day = 1]
    ELSE [year |-> d.year + 1, month |-> 1, day |-> 1]
RECURSIVE DayAfter(_, _)
DayAfter(d, n) == IF n = 0 THEN d ELSE DayAfter(Tomorrow(d), n - 1)

\* MetadataGenerator.generate_metadata(tutorial), called on the day `today`
generate_metadata(t, today) ==
    LET title == Get(t, "title", <<"U", "n", "t", "i", "t", "l", "e", "d">>)
        source == Get(t, "source", Str_unknown)
    IN [title |-> title,
        description |-> _generate_description(t),
        keywords |-> _extract_keywords(t),
        author |-> "Automations Cookbook",
        date |-> strftime(today),
        category |-> _determine_category(source),
        tags |-> _generate_tags(t),
        source |-> source,
        url |-> Get(t, "template_url", <<>>),
        seo |-> [og_title |-> title,
                 og_description |-> _generate_description(t),
                 og_type |-> "article",
                 twitter_card |-> "summary_large_image"]]

\* A dict holding the fields that are given (Absent: the key is missing)
Dict(fields) == [k \in {k \in DOMAIN fields : fields[k] # Absent} |-> fields[k]]

\* A text of n characters, no two neighbours alike
Body(n) == [i \in 1..n |-> DigitChars[(i % 10) + 1]]

\* The tutorials handed to the generator.
\*   lengths       short, and around the limit of a description
\*   descriptions  missing, empty, blank, or a text
\*   contents      missing, empty, blank, or a first paragraph (after blank
\*                 lines or not, followed by a second paragraph or not)
\*   texts         every description with a content or without, and every
\*                 content with no description
\* and a title of 133 characters with no description and no content, with a
\* blank content or with a short one
Tutorials ==
    LET lengths == {1} \cup (DescriptionLimit - MaxOver)..(DescriptionLimit + MaxOver)
        titles == {Absent,
                   <<"S", "y", "n", "c", " ", "G", "m", "a", "i", "l", " ", "t", "o",
                     " ", "S", "l", "a", "c", "k">>,
                   <<"B", "a", "c", "k", "u", "p", " ", "v", "2", " ", "j", "o", "b",
                     "_", "x", " ", "d", "o", "n", "e">>}
        sources == {Absent, Str_N8N, Str_zapier, <<"m", "a", "k", "e">>}
        descriptions == {Absent, <<>>, <<Space>>} \cup {Body(n) : n \in lengths}
        contents ==
            {Absent, <<>>, <<Space, Newline>>}
            \cup {pad \o Body(n) \o rest :
                    pad \in {<<>>, <<Space>> \o BlankLine \o <<Newline>>},
                    n \in lengths,
                    rest \in {<<>>, <<Space>> \o BlankLine \o <<"x">>}}
        texts ==
            {<<de, co>> : de \in descriptions,
                          co \in {Absent, Body(DescriptionLimit + 1)}}
            \cup {<<de, co>> : de \in {Absent, <<>>}, co \in contents}
    IN {Dict([title |-> ti, description |-> x[1], content |-> x[2], source |-> so]) :
          ti \in titles, x \in texts, so \in sources}
       \cup {Dict([title |-> Body(DescriptionLimit - 27), description |-> Absent,
                   content |-> co, source |-> Str_zapier]) :
                co \in {Absent, <<Space, Newline>>, Body(1)}}

InitMeta ==
    /\ DefaultConfig
    /\ InitRequest
    /\ InitScrapeVars
    /\ InitApiVars
    /\ InitPipeVars
    /\ InitTutVars
    /\ tutorial \in Tutorials
    /\ now = FirstDay
    /\ generated = <<>>
    /\ document = NoDocument

\* Midnight passes.
NextDay ==
    /\ \E n \in 0..(MaxDays - 1) : now = DayAfter(FirstDay, n)
    /\ now' = Tomorrow(now)
    /\ UNCHANGED <<tutvars, cfgvars, reqvars, scrapevars, apivars, pipevars, tutorial, generated,
                   document>>

\* One call of generate_metadata on the tutorial.
Generate ==
    /\ Len(generated) < MaxGenerated
    /\ generated' = Append(generated, generate_metadata(tutorial, now))
    /\ UNCHANGED <<tutvars, cfgvars, reqvars, scrapevars, apivars, pipevars, tutorial, now, document>>

NextMeta ==
    \/ NextDay
    \/ Generate

SpecMeta == InitMeta /\ [][NextMeta]_vars

------------------------------------------------------------------------------
(* SpecFront: MetadataGenerator.create_frontmatter *)

\* Whether the plain text would be read back as something else than a string
\* (an integer, a boolean, null)
ResolvesToOther(v) ==
    \/ IsIntLiteral(v)
    \/ lower(v) \in {<<"t", "r", "u", "e">>, <<"n", "o">>, <<"n", "u", "l", "l">>,
                     <<"~">>}

\* Whether the YAML emitter writes a string without quotes in a block mapping
IsPlain(v) ==
    /\ v # <<>>
    /\ ~MatchAt(v, 1, <<"-", "-", "-">>) /\ ~MatchAt(v, 1, <<".", ".", ".">>)
    /\ Head(v) \notin {"'", "#", ",", "[", "]", "{", "}", "&", "*", "!", "|", ">",
                       "%", "@"}
    /\ Head(v) \in {"-", "?", ":"} => (Len(v) > 1 /\ v[2] \notin Whitespace)
    /\ \A i \in 1..Len(v) :
          /\ v[i] = ":" => (i < Len(v) /\ v[i + 1] \notin Whitespace)
          /\ (v[i] = "#" /\ i > 1) => v[i - 1] \notin Whitespace
          /\ v[i] # Newline
    /\ Head(v) # Space /\ v[Len(v)] # Space
    /\ ~ResolvesToOther(v)

\* 'text' with every quote of the text doubled
RECURSIVE Doubled(_)
Doubled(v) ==
    IF v = <<>> THEN <<>>
    ELSE (IF Head(v) = "'" THEN <<"'", "'">> ELSE <<Head(v)>>) \o Doubled(Tail(v))

\* (mutant) every string is written plain
represent_str_Plain(v) == v

\* How yaml.dump writes a string: plain where that reads back as the same
\* string, in single quotes otherwise
represent_str(v) == IF IsPlain(v) THEN v ELSE <<"'">> \o Doubled(v) \o <<"'">>

\* The concatenation of the strings of a list
RECURSIVE Concat(_)
Concat(xs) == IF xs = <<>> THEN <<>> ELSE Head(xs) \o Concat(Tail(xs))

\* yaml.dump(metadata, default_flow_style=False, allow_unicode=True):
\* a block mapping, keys sorted, a list as a block sequence
yaml_dump(metadata) ==
    LET keys == sorted(DOMAIN metadata)
        Value(x) ==
            IF x.kind = "str" THEN <<Space>> \o represent_str(x.text) \o <<Newline>>
            ELSE IF x.items = <<>> THEN <<Space, "[", "]", Newline>>
            ELSE <<Newline>>
                 \o Concat([i \in 1..Len(x.items) |->
                              <<"-", Space>> \o represent_str(x.items[i])
                              \o <<Newline>>])
    IN IF keys = <<>> THEN <<"{", "}", Newline>>
       ELSE Concat([i \in 1..Len(keys) |->
                      represent_str(keys[i]) \o <<":">> \o Value(metadata[keys[i]])])

\* MetadataGenerator.create_frontmatter(metadata, content):
\* f"---\n{yaml_frontmatter}---\n\n{content}"
create_frontmatter(metadata, content) ==
    <<"-", "-", "-", Newline>> \o yaml_dump(metadata)
    \o <<"-", "-", "-", Newline, Newline>> \o content

\* The metadata dicts: at most MaxKeys keys, each with a string or with a list
\* of at most MaxItems strings. The strings are plain words and strings that
\* YAML would read as something else when written plain.
Metadatas ==
    LET strings == {<<"a">>, <<>>, <<"-", "-", "-">>, <<"-", Space, "a">>,
                    <<"a", ":", Space, "b">>, <<"1", "2">>, <<"i", "t", "'", "s">>,
                    <<Space, "a">>}
        items == {<<"b">>, <<"-", "-", "-">>}
        keys == {<<"a">>, <<"t", "a", "g", "s">>, <<"-", "-", "-">>, <<"1">>}
        values ==
            {[kind |-> "str", text |-> v] : v \in strings}
            \cup {[kind |-> "list", items |-> xs] :
                    xs \in UNION {[1..n -> items] : n \in 0..MaxItems}}
    IN UNION {[ks -> values] :
                ks \in {ks \in SUBSET keys : Cardinality(ks) <= MaxKeys}}

\* The contents: empty, a line, lines that look like a marker, blank lines
FrontContents ==
    {<<>>, <<"x">>, <<"-", "-", "-", Newline, "x">>,
     <<Newline, "-", "-", "-", Newline, Newline, "x", Newline>>}

\* The arguments of a call are at hand, the document is not written yet.
InitFront ==
    /\ DefaultConfig
    /\ InitRequest
    /\ InitScrapeVars
    /\ InitApiVars
    /\ InitPipeVars
    /\ InitTutVars
    /\ tutorial = NoTutorial
    /\ now = FirstDay
    /\ generated = <<>>
    /\ document \in {[kind |-> "arguments", metadata |-> m, content |-> c,
                      text |-> <<>>] : m \in Metadatas, c \in FrontContents}

\* The call of create_frontmatter(metadata, content)
CreateFrontmatter ==
    /\ document.kind = "arguments"
    /\ document' = [document EXCEPT
                      !.kind = "document",
                      !.text = create_frontmatter(document.metadata, document.content)]
    /\ UNCHANGED <<tutvars, cfgvars, reqvars, scrapevars, apivars, pipevars, tutorial, now, generated>>

NextFront == CreateFrontmatter

SpecFront == InitFront /\ [][NextFront]_vars

------------------------------------------------------------------------------
(* SpecSections: tutorial_generator.py, one call of _parse_sections *)

\* (mutant) the line is tested as it stands, without strip()
IsHeader_Unstripped(line) ==
    \/ \E d \in {"1", "2", "3", "4", "5", "6", "7"} : MatchAt(line, 1, <<d, ".">>)
    \/ MatchAt(line, 1, <<"#", "#">>)

\* line.strip().startswith(('1.', '2.', '3.', '4.', '5.', '6.', '7.', '##'))
IsHeader(line) ==
    \/ \E d \in {"1", "2", "3", "4", "5", "6", "7"} :
          MatchAt(strip(line), 1, <<d, ".">>)
    \/ MatchAt(strip(line), 1, <<"#", "#">>)

\* sep.join(lines)
RECURSIVE join(_, _)
join(sep, lines) ==
    IF lines = <<>> THEN <<>>
    ELSE IF Len(lines) = 1 THEN lines[1]
    ELSE lines[1] \o sep \o join(sep, Tail(lines))

\* The loop of _parse_sections over the lines left, and its `Save last
\* section`. current_section is <<>> for None: a header's stripped text is
\* never empty, so `if current_section:` tells the two apart.
RECURSIVE ParseLines(_, _, _, _)
ParseLines(lines, sections, current_section, current_content) ==
    LET saved == IF current_section # <<>>
                    THEN Append(sections,
                                [title |-> current_section,
                                 content |-> strip(join(<<Newline>>, current_content))])
                    ELSE sections
    IN IF lines = <<>> THEN saved
       ELSE IF IsHeader(Head(lines))
               THEN ParseLines(Tail(lines), saved, strip(Head(lines)), <<>>)
               ELSE ParseLines(Tail(lines), sections, current_section,
                               Append(current_content, Head(lines)))

\* TutorialGenerator._parse_sections(content)
_parse_sections(content) == ParseLines(split(content, <<Newline>>), <<>>, <<>>, <<>>)

\* The answers of the LLM handed to _parse_sections: up to MaxLines lines,
\* numbered and markdown headers (bare, indented, followed by blanks), lines
\* that only look like headers, text with blanks around it, empty lines
Answers ==
    LET lines == {<<"1", ".", Space, "O">>, <<Space, "#", "#", "B", Space>>,
                  <<"7", ".">>, <<"8", ".", "x">>, <<"#", "x">>, <<Space, "t">>,
                  <<"t", Space>>, <<>>}
    IN {join(<<Newline>>, ls) : ls \in UNION {[1..n -> lines] : n \in 0..MaxLines}}

InitSections ==
    /\ DefaultConfig
    /\ InitRequest
    /\ InitScrapeVars
    /\ InitApiVars
    /\ InitMetaVars
    /\ InitPipeVars
    /\ parsing \in {[NoParsing EXCEPT !.content = a] : a \in Answers}
    /\ batch = NoBatch

\* One call of _parse_sections on the answer.
ParseSections ==
    /\ ~parsing.called
    /\ parsing' = [parsing EXCEPT !.called = TRUE,
                                  !.sections = _parse_sections(parsing.content)]
    /\ UNCHANGED <<cfgvars, reqvars, scrapevars, apivars, metavars, pipevars, batch>>

NextSections == ParseSections

SpecSections == InitSections /\ [][NextSections]_vars

------------------------------------------------------------------------------
(* SpecPipeline: main.py, one run of main *)

\* The files of OUTPUT_DIR: files holds n8n_templates.json and
\* zapier_templates.json, outputs holds generated_tutorials.json and
\* all_metadata.yaml.

\* (mutant) the pipeline does not stop at the missing key
validate_raises_Never(opts) == FALSE

\* Config.validate(): whether it raises ValueError
validate_raises(opts) == ~opts.api_key

\* The loop of scrape_templates over the elements found: the records extracted
RECURSIVE ExtractAll(_, _)
ExtractAll(elements, source) ==
    IF elements = <<>> THEN <<>>
    ELSE LET template == extract_template_info(Head(elements), source)
         IN (IF template # NoTemplate THEN <<template>> ELSE <<>>)
            \o ExtractAll(Tail(elements), source)

\* A file after an attempt to write it: written, untouched when open() failed,
\* cut short when the write failed
Written(file, content, out) ==
    IF out = "saved" THEN content
    ELSE IF out = "open_failed" THEN file
    ELSE PartialFile

\* (mutant) a failed write of a file empties the files written before it
AfterSave_Wiping(fs, name, content, out) ==
    IF out = "saved" THEN [fs EXCEPT ![name] = content]
    ELSE [n \in DOMAIN fs |-> PartialFile]

\* The files of a directory after an attempt to write one of them
AfterSave(fs, name, content, out) ==
    [fs EXCEPT ![name] = Written(fs[name], content, out)]

\* python main.py [--no-tutorials] [--scrape-only], with or without
\* OPENAI_API_KEY in the environment; OUTPUT_DIR is empty
InitPipeline ==
    /\ DefaultConfig
    /\ InitRequest
    /\ InitScrapeVars
    /\ InitApiVars
    /\ InitMetaVars
    /\ options \in [generate_tutorials : BOOLEAN, scrape_only : BOOLEAN,
                    api_key : BOOLEAN]
    /\ InitRun
    /\ InitTutVars

\* One `try: results[source] = <Source>TemplateScraper().scrape_templates(limit)
\* except Exception: log` of scrape_all_templates, n8n first; after the second,
\* results['total'] is set.
ScrapeSource ==
    /\ step \in {"start", "n8n_scraped"}
    /\ LET source == IF step = "start" THEN "n8n" ELSE "zapier"
           Done(rs) == IF source = "n8n" THEN rs
                       ELSE [rs EXCEPT !.total = Len(rs.n8n) + Len(rs.zapier)]
       IN /\ \/ \E cause \in {"fetch", "parse"} :
                   /\ failure' = [failure EXCEPT ![source] = cause]
                   /\ results' = Done(results)
                   /\ UNCHANGED <<files, raised>>
             \/ \E page \in Pages, limit \in 1..MaxElements, out \in SaveOutcomes :
                   LET name == IF source = "n8n" THEN Str_n8n ELSE Str_zapier
                       ts == ExtractAll(find_all(page, limit), name)
                   IN /\ files' = AfterSave(files, source, TemplateFile(name, ts), out)
                      /\ IF out = "saved"
                            THEN /\ results' = Done([results EXCEPT ![source] = ts])
                                 /\ UNCHANGED <<failure, raised>>
                            ELSE /\ results' = Done(results)
                                 /\ failure' = [failure EXCEPT ![source] = "save"]
                                 /\ raised' = raised \cup {source}
          /\ step' = IF source = "n8n" THEN "n8n_scraped" ELSE "scraped"
    /\ UNCHANGED <<tutvars, cfgvars, reqvars, apivars, metavars, template_elements, idx,
                   templates, options, pipeline, outputs, llm, exit_status>>

\* (mutant) the Zapier records first
all_templates_ZapierFirst == results.zapier \o results.n8n

\* all_templates = scraping_results['n8n'] + scraping_results['zapier']
all_templates == results.n8n \o results.zapier

\* TutorialGenerator.generate_tutorial(template), when the LLM call succeeds
\* (content: what the LLM answered)
generate_tutorial(template) ==
    LET tutorial_content == <<"1", ".", Space, "O", Newline, "t">>
    IN [title |-> Get(template, "title", <<"U", "n", "t", "i", "t", "l", "e", "d">>),
        source |-> Get(template, "source", Str_unknown),
        template_url |-> Get(template, "url", <<>>),
        content |-> tutorial_content,
        sections |-> _parse_sections(tutorial_content)]

\* (mutant) run_full_pipeline goes on to step 2 with an empty list
Collect_GoesOn ==
    /\ step = "scraped"
    /\ IF options.scrape_only
          THEN /\ step' = "exited"
               /\ exit_status' = 0
               /\ UNCHANGED pipeline
          ELSE /\ pipeline' = [pipeline EXCEPT !.scraping = results]
               /\ step' = "tutorials"
               /\ UNCHANGED exit_status
    /\ UNCHANGED <<tutvars, cfgvars, reqvars, scrapevars, apivars, metavars, options,
                   outputs, llm, raised>>

\* After scrape_all_templates: main --scrape-only prints the total and ends;
\* run_full_pipeline stores the results and returns them when nothing was
\* scraped.
Collect ==
    /\ step = "scraped"
    /\ IF options.scrape_only
          THEN /\ step' = "exited"
               /\ exit_status' = 0
               /\ UNCHANGED pipeline
          ELSE /\ pipeline' = [pipeline EXCEPT !.scraping = results]
               /\ step' = IF all_templates = <<>> THEN "returned" ELSE "tutorials"
               /\ UNCHANGED exit_status
    /\ UNCHANGED <<tutvars, cfgvars, reqvars, scrapevars, apivars, metavars, options, outputs,
                   llm, raised>>

\* Step 2 of run_full_pipeline: Config.validate(), TutorialGenerator(),
\* generate_batch_tutorials(all_templates) with its _save_tutorials
GenerateTutorials ==
    /\ step = "tutorials"
    /\ IF ~options.generate_tutorials \/ validate_raises(options)
          THEN /\ pipeline' = [pipeline EXCEPT !.tutorials = all_templates]
               /\ step' = "metadata"
               /\ UNCHANGED <<outputs, llm, raised>>
          ELSE \E ok \in SUBSET (1..Len(all_templates)), out \in SaveOutcomes :
                  LET kept == SelectSeq([i \in 1..Len(all_templates) |->
                                           <<i, all_templates[i]>>],
                                        LAMBDA p : p[1] \in ok)
                      tutorials == [i \in 1..Len(kept) |-> generate_tutorial(kept[i][2])]
                  IN /\ llm' = [built |-> TRUE, calls |-> Len(all_templates)]
                     /\ outputs' = AfterSave(outputs, "tutorials",
                                             [kind |-> "json", count |-> Len(tutorials),
                                              tutorials |-> tutorials],
                                             out)
                     /\ IF out = "saved"
                           THEN /\ pipeline' = [pipeline EXCEPT !.tutorials = tutorials]
                                /\ step' = "metadata"
                                /\ UNCHANGED raised
                           ELSE /\ pipeline' = [pipeline EXCEPT !.success = FALSE]
                                /\ step' = "returned"
                                /\ raised' = raised \cup {"tutorials"}
    /\ UNCHANGED <<tutvars, cfgvars, reqvars, scrapevars, apivars, metavars, options,
                   exit_status>>

\* Step 3 of run_full_pipeline: generate_batch_metadata(results['tutorials']),
\* save_metadata_yaml when the list is not empty, success
GenerateMetadata ==
    /\ step = "metadata"
    /\ LET metadata_list == [i \in 1..Len(pipeline.tutorials) |->
                               generate_metadata(pipeline.tutorials[i], now)]
       IN \E out \in IF metadata_list = <<>> THEN {"saved"} ELSE SaveOutcomes :
             /\ outputs' = IF metadata_list = <<>> THEN outputs
                           ELSE AfterSave(outputs, "metadata",
                                          [kind |-> "yaml", templates |-> metadata_list],
                                          out)
             /\ pipeline' = [pipeline EXCEPT !.metadata = metadata_list,
                                             !.success = (out = "saved")]
             /\ raised' = IF out = "saved" THEN raised ELSE raised \cup {"metadata"}
    /\ step' = "returned"
    /\ UNCHANGED <<tutvars, cfgvars, reqvars, scrapevars, apivars, metavars, options, llm,
                   exit_status>>

\* main: sys.exit(0) if results['success'] else sys.exit(1)
Exit ==
    /\ step = "returned"
    /\ exit_status' = IF pipeline.success THEN 0 ELSE 1
    /\ step' = "exited"
    /\ UNCHANGED <<tutvars, cfgvars, reqvars, scrapevars, apivars, metavars, options, pipeline,
                   outputs, llm, raised>>

NextPipeline ==
    \/ ScrapeSource
    \/ Collect
    \/ GenerateTutorials
    \/ GenerateMetadata
    \/ Exit

SpecPipeline == InitPipeline /\ [][NextPipeline]_vars

------------------------------------------------------------------------------
(* SpecBatch: one call of generate_batch_tutorials or generate_batch_metadata *)

\* (mutant) the exception of an item leaves the loop and the call
AfterFailure_Aborts(b) == [b EXCEPT !.pos = "raised"]

\* except Exception as e: logger.warning(...), and the loop goes on
AfterFailure(b) == [b EXCEPT !.idx = @ + 1, !.warnings = @ + 1]

\* The lists handed to a batch call: at most MaxBatch items; templates as the
\* scrapers build them, a tutorial, None, and (for the metadata) a dict whose
\* title is None
Batches ==
    LET a == extract_template_info(ElementFull, Str_n8n)
        b == extract_template_info(ElementBare, Str_zapier)
        ListsOf(S) == UNION {[1..n -> S] : n \in 0..MaxBatch}
        BatchOf(kind, items) ==
            [kind |-> kind, items |-> items, idx |-> 0, out |-> <<>>,
             succeeded |-> <<>>, warnings |-> 0, pos |-> "loop", saved |-> NoFile]
    IN {BatchOf("tutorials", items) : items \in ListsOf({a, b, None})}
       \cup {BatchOf("metadata", items) :
               items \in ListsOf({a, b, generate_tutorial(a), None,
                                [a EXCEPT !.title = NoTag]})}

InitBatch ==
    /\ DefaultConfig
    /\ InitRequest
    /\ InitScrapeVars
    /\ InitApiVars
    /\ InitMetaVars
    /\ InitPipeVars
    /\ parsing = NoParsing
    /\ batch \in Batches

\* One turn of the loop: try: generate one item and append it, except
\* Exception: log. (succeeded keeps the positions of the items appended.)
\* The try block of generate_metadata raises on None.get and on None.lower()
\* for a title that is None; the one of generate_tutorial on None.get, on an
\* openai.APIError and on an answer without content (None.split).
BatchItem ==
    /\ batch.kind # "none"
    /\ batch.pos = "loop"
    /\ batch.idx < Len(batch.items)
    /\ LET item == batch.items[batch.idx + 1]
           metadata_raises(x) == x = None \/ Get(x, "title", <<>>) = NoTag
           tutorial_raises(x, answer) == x = None \/ answer # "ok"
           Appended(x) == [batch EXCEPT !.idx = @ + 1, !.out = Append(@, x),
                                        !.succeeded = Append(@, batch.idx + 1)]
       IN IF batch.kind = "metadata"
             THEN batch' = IF metadata_raises(item) THEN AfterFailure(batch)
                           ELSE Appended(generate_metadata(item, now))
             ELSE \E answer \in {"ok", "api_error", "no_content"} :
                     batch' = IF tutorial_raises(item, answer) THEN AfterFailure(batch)
                              ELSE Appended(generate_tutorial(item))
    /\ UNCHANGED <<cfgvars, reqvars, scrapevars, apivars, metavars, pipevars, parsing>>

\* After the loop: generate_batch_metadata returns its list;
\* generate_batch_tutorials calls _save_tutorials, which raises when the file
\* cannot be written, and then returns its list.
BatchEnd ==
    /\ batch.kind # "none"
    /\ batch.pos = "loop"
    /\ batch.idx = Len(batch.items)
    /\ IF batch.kind = "metadata"
          THEN batch' = [batch EXCEPT !.pos = "returned"]
          ELSE \E out \in SaveOutcomes :
                  batch' = [batch EXCEPT
                              !.saved = Written(@, [kind |-> "json",
                                                    count |-> Len(batch.out),
                                                    tutorials |-> batch.out], out),
                              !.pos = IF out = "saved" THEN "returned" ELSE "raised"]
    /\ UNCHANGED <<cfgvars, reqvars, scrapevars, apivars, metavars, pipevars, parsing>>

NextBatch ==
    \/ BatchItem
    \/ BatchEnd

SpecBatch == InitBatch /\ [][NextBatch]_vars

------------------------------------------------------------------------------
(* Reading the trace of one invocation *)

IsResponse(r) == r.kind = "Response"

\* _make_request has handed control back to its caller.
Returned == pc = retpc


\* Every GET of the trace failed with a request exception.
AllGetsFailed(tr) == \A i \in GetEvents(tr) : tr[i][2] \in RequestExceptions

\* The first GETs failed with a request exception and the last one succeeded.
FailedThenSucceeded(tr) ==
    /\ Len(tr) > 0
    /\ tr[Len(tr)] = <<"get", "ok">>
    /\ \A i \in GetEvents(tr) : i < Len(tr) => tr[i][2] \in RequestExceptions

------------------------------------------------------------------------------
(* Claims *)

\* C1: when the first k GETs (0 <= k < RETRY_ATTEMPTS) fail with a request
\* exception and GET k+1 succeeds, _make_request returns that response, has
\* issued exactly k+1 GETs and has slept exactly k times, 2^0, ..., 2^(k-1)
\* seconds in that order, each sleep between a failed GET and the next GET.
C1_RetryThenSuccess ==
    FailedThenSucceeded(trace) =>
        LET k == NumGets(trace) - 1 IN
        /\ Returned
        /\ ~escaped
        /\ k >= 0 /\ k < RETRY_ATTEMPTS
        /\ IsResponse(response) /\ response.get = k + 1
        /\ NumSleeps(trace) = k
        /\ Len(trace) = 2 * k + 1
        /\ \A j \in 0..(k - 1) :
              /\ trace[2 * j + 1][1] = "get"
              /\ trace[2 * j + 1][2] \in RequestExceptions
              /\ trace[2 * j + 2] = <<"sleep", Pow2(j)>>

\* C1 witness: the longest case, RETRY_ATTEMPTS - 1 >= 2 failures, then success.
C1_Witness ==
    /\ FailedThenSucceeded(trace)
    /\ Returned
    /\ RETRY_ATTEMPTS >= 3
    /\ NumGets(trace) = RETRY_ATTEMPTS
    /\ NumSleeps(trace) = RETRY_ATTEMPTS - 1

\* C2 (safety part): with RETRY_ATTEMPTS >= 1 and every GET failing with a
\* request exception, _make_request returns None after exactly RETRY_ATTEMPTS
\* GETs (never fewer, never more) and raises nothing.
C2_Exhausted ==
    /\ NumGets(trace) <= RETRY_ATTEMPTS
    /\ (Returned /\ RETRY_ATTEMPTS >= 1 /\ AllGetsFailed(trace)) =>
          /\ response = None
          /\ ~escaped
          /\ NumGets(trace) = RETRY_ATTEMPTS

\* C2: the above, and the retry loop always terminates: an invocation that has
\* entered the body of _make_request hands control back to its caller.
C2_AlwaysFailing ==
    /\ []C2_Exhausted
    /\ (pc \in {"attempt", "backoff"}) ~> (pc = retpc)

\* C2 witness: three GETs, all failed, None returned.
C2_Witness ==
    /\ Returned
    /\ RETRY_ATTEMPTS >= 3
    /\ AllGetsFailed(trace)
    /\ NumGets(trace) = RETRY_ATTEMPTS
    /\ response = None

\* C3: no exception ever escapes _make_request: its caller receives a response
\* or None, whatever goes wrong during an attempt.
C3_NeverRaises ==
    Returned => (~escaped /\ (response = None \/ IsResponse(response)))

\* C4 (safety part): one limiter for the whole process. Counting the
\* invocations of both scrapers, at most RATE_LIMIT_CALLS bodies start within
\* one limiter period; an invocation is blocked only when the period is full,
\* it then sleeps exactly until the period has elapsed, and it sleeps at most
\* once before its body runs.
C4_Limited ==
    /\ Len(starts) <= RATE_LIMIT_CALLS
    /\ \A i \in 1..Len(starts) :
          /\ starts[i][1] >= last_reset
          /\ starts[i][1] < last_reset + RATE_LIMIT_PERIOD
    /\ limiterSleeps <= 1
    /\ pc = "rate_sleep" =>
          /\ Len(starts) = RATE_LIMIT_CALLS
          /\ period_remaining > 0
          /\ clock + period_remaining = last_reset + RATE_LIMIT_PERIOD
    /\ (pc = "limiter" /\ limiterSleeps = 1) =>
          clock - last_reset >= RATE_LIMIT_PERIOD

\* C4: the above, and an invocation over the limit is not rejected: every
\* invocation that reaches the limiter eventually runs the body.
C4_SharedLimiter ==
    /\ []C4_Limited
    /\ (pc \in {"limiter", "rate_sleep"}) ~> (pc = "attempt")

\* C4 witness: the Zapier scraper is blocked by a period that the n8n scraper
\* helped to fill.
C4_Witness ==
    /\ pc = "rate_sleep"
    /\ inst = "zapier"
    /\ RATE_LIMIT_CALLS = 2
    /\ {starts[i][2] : i \in 1..Len(starts)} = Instances

\* The listing elements whose extraction does not fail, in page order.
Extractable(es) == SelectSeq(es, LAMBDA e : ~e.broken)

\* The records of the extractable elements among `es`, in page order.
RecordsOf(es, source) ==
    [i \in 1..Len(Extractable(es)) |-> extract_template_info(Extractable(es)[i], source)]

DonePc(source) == IF source = "n8n" THEN "n8n_done" ELSE "zapier_done"

\* C5 (states): in both scrape_templates, whatever subset of the listing elements
\* fails to extract, the list built so far holds exactly the records of the
\* other elements passed so far, in page order; the loop ends at the save with
\* the records of all the others; and once the file is written, the file and
\* the returned list hold exactly those records.
C5_Isolated ==
    /\ pc = "extract" =>
          /\ idx <= Len(template_elements)
          /\ templates = RecordsOf(SubSeq(template_elements, 1, idx), inst)
    /\ pc = "save" => templates = RecordsOf(template_elements, inst)
    /\ (pc = DonePc(inst) /\ failure[inst] = "none") =>
          /\ results[inst] = RecordsOf(template_elements, inst)
          /\ files[inst] = TemplateFile(inst, RecordsOf(template_elements, inst))
    /\ \A s \in Instances : failure[s] \in {"none", "fetch", "parse", "save"}

\* C5 (steps): the extraction loop never aborts the batch: from the loop the
\* only ways on are the next element and the save, and from the save the only
\* failure is that of writing the file.
C5_LoopGoesOn ==
    /\ pc = "extract" => pc' \in {"extract", "save"}
    /\ pc = "save" => (failure'[inst] \in {"none", "save"}
                        /\ (failure'[inst] = "none" => files'[inst].kind = "json"))

\* C5: a failure while extracting one listing element never aborts the batch.
C5_PerItemIsolation == []C5_Isolated /\ [][C5_LoopGoesOn]_vars

\* C5 witness: the Zapier page led with an element that failed, followed by one
\* that did not; one record was returned and the file was written.
C5_Witness ==
    /\ pc = "zapier_done"
    /\ failure["zapier"] = "none"
    /\ Len(template_elements) = 2
    /\ template_elements[1].broken /\ ~template_elements[2].broken
    /\ Len(results["zapier"]) = 1
    /\ files["zapier"].kind = "json"
    /\ files["zapier"].count = 1

------------------------------------------------------------------------------
(* Reading a request and its reply *)

Handled == event # NoEvent
IsGet == Handled /\ event.httpMethod = "GET"
Ok200 == IsGet /\ reply.kind = "returned" /\ reply.statusCode = 200

\* Two strings are equal ignoring case.
SameIgnoringCase(a, b) ==
    Len(a) = Len(b) /\ \A i \in 1..Len(a) : LowerChar(a[i]) = LowerChar(b[i])

\* The request names a source to filter by.
HasSourceFilter == event.source # Absent /\ event.source # <<>>

\* The loaded records whose source equals the requested one ignoring case.
MatchingLoaded ==
    SelectSeq(load_templates(data),
              LAMBDA t : "source" \in DOMAIN t /\ SameIgnoringCase(t.source, event.source))

\* The records the limit applies to.
Candidates == IF HasSourceFilter THEN MatchingLoaded ELSE load_templates(data)

\* The decimal literal of a limit L in 0..10.
Literal(L) == IF L < 10 THEN <<DigitChars[L + 1]>> ELSE <<"1", "0">>

Min(a, b) == IF a < b THEN a ELSE b

\* C6: the handler dispatches on httpMethod first: OPTIONS always yields 200
\* with an empty body; any method other than OPTIONS and GET, a missing one
\* included, yields 405 whatever the query parameters; only GET reaches the
\* templates and yields 200 or 500.
C6_MethodDispatch ==
    Handled =>
       /\ reply.kind = "returned"
       /\ event.httpMethod = "OPTIONS" =>
             reply.statusCode = 200 /\ reply.body = EmptyBody
       /\ event.httpMethod \notin {"OPTIONS", "GET"} => reply.statusCode = 405
       /\ event.httpMethod = "GET" => reply.statusCode \in {200, 500}
       /\ (reply.statusCode = 500 \/ "templates" \in DOMAIN reply.body) =>
             event.httpMethod = "GET"

\* C6 witness: a POST whose limit is no integer is answered 405.
C6_Witness ==
    /\ Handled
    /\ event.httpMethod = "POST"
    /\ event.limit = <<"x">>
    /\ reply.statusCode = 405

\* C7: for a GET with a non-empty source = s, every returned record has a
\* source equal to s ignoring case (equal, not merely containing it), and the
\* returned records are the matching loaded records, in order, less only
\* those the limit cuts off.
C7_SourceFilter ==
    (Ok200 /\ HasSourceFilter) =>
       LET returned == reply.body.templates
       IN /\ \A i \in 1..Len(returned) :
                /\ "source" \in DOMAIN returned[i]
                /\ SameIgnoringCase(returned[i].source, event.source)
          /\ Len(returned) <= Len(MatchingLoaded)
          /\ returned = SubSeq(MatchingLoaded, 1, Len(returned))
          /\ Len(returned) < Len(MatchingLoaded) =>
                /\ event.limit # Absent
                /\ \/ Head(event.limit) = "-"
                   \/ \E L \in 0..10 : event.limit = Literal(L) /\ L = Len(returned)

\* C7 witness: source=N8N returns the record spelled n8n and not the one
\* spelled n8 that was loaded before it.
C7_Witness ==
    /\ Ok200
    /\ event.source = Str_N8N
    /\ event.limit = Absent
    /\ Len(load_templates(data)) >= 2
    /\ load_templates(data)[1].title = "c"
    /\ Len(reply.body.templates) = 1
    /\ reply.body.templates[1].source = Str_n8n

\* C8: for a GET with limit = L >= 0 over n candidate records the reply is 200
\* and holds exactly min(L, n) records, the first min(L, n) candidates in
\* their order.
C8_Limit ==
    \A L \in 0..10 :
       (IsGet /\ event.limit = Literal(L)) =>
          /\ Ok200
          /\ Len(reply.body.templates) = Min(L, Len(Candidates))
          /\ reply.body.templates = SubSeq(Candidates, 1, Min(L, Len(Candidates)))

\* C8 witness: limit=2 over four loaded records returns the first two.
C8_Witness ==
    /\ Ok200
    /\ event.limit = <<"2">>
    /\ ~HasSourceFilter
    /\ Len(load_templates(data)) = 4
    /\ Len(reply.body.templates) = 2

\* C9: every 200 reply to a GET has the body {count, templates, sources} where
\* count is the number of returned records and sources lists, once each, the
\* source values of the returned records (a record without a source counts as
\* 'unknown').
C9_Body ==
    Ok200 =>
       LET body == reply.body
       IN /\ DOMAIN body = {"count", "templates", "sources"}
          /\ body.count = Len(body.templates)
          /\ {body.sources[i] : i \in 1..Len(body.sources)}
                = {Get(body.templates[i], "source", Str_unknown) :
                      i \in 1..Len(body.templates)}
          /\ \A i, j \in 1..Len(body.sources) :
                body.sources[i] = body.sources[j] => i = j

\* C9 witness: two returned records of one source, while a record of another
\* source was loaded and cut off: its source is not listed.
C9_Witness ==
    /\ Ok200
    /\ Len(reply.body.templates) = 2
    /\ reply.body.sources = <<Str_n8n>>
    /\ \E i \in 1..Len(load_templates(data)) :
          Get(load_templates(data)[i], "source", Str_unknown) = Str_zapier

\* C10: an exception raised while a GET is handled (a limit that is no
\* integer) becomes a 500 reply with the body {error: message}; the handler
\* returns normally for every GET.
C10_Errors ==
    IsGet =>
       /\ reply.kind = "returned"
       /\ (event.limit # Absent /\ ~IsIntLiteral(event.limit)) =>
             /\ reply.statusCode = 500
             /\ reply.body = [error |-> IntError(event.limit)]
       /\ reply.statusCode = 500 => DOMAIN reply.body = {"error"}

\* C10 witness: GET ?limit=x is answered 500.
C10_Witness ==
    /\ IsGet
    /\ event.limit = <<"x">>
    /\ reply.kind = "returned"
    /\ reply.statusCode = 500


------------------------------------------------------------------------------
(* Reading the metadata of a tutorial *)

\* The first paragraph of a content: the first piece between blank lines that
\* holds something else than whitespace, without the whitespace around it
HasParagraph(content) ==
    \E k \in 1..Len(split(content, BlankLine)) :
        strip(split(content, BlankLine)[k]) # <<>>
FirstParagraph(content) ==
    LET pieces == split(content, BlankLine)
        k == CHOOSE k \in 1..Len(pieces) :
                /\ strip(pieces[k]) # <<>>
                /\ \A j \in 1..(k - 1) : strip(pieces[j]) = <<>>
    IN strip(pieces[k])

\* The rule of the description: a text of more than 160 characters becomes its
\* first 157 characters and '...', 160 characters in all; a shorter one stays.
FollowsRule(out, text) ==
    IF Len(text) > 160
       THEN /\ Len(out) = 160
            /\ SubSeq(out, 1, 157) = SubSeq(text, 1, 157)
            /\ SubSeq(out, 158, 160) = <<".", ".", ".">>
       ELSE out = text

\* C11: the description of the metadata is the tutorial's description cut by
\* the rule (first 157 characters and '...' when it is longer than 160, itself
\* otherwise); when the tutorial has no description it is the first paragraph
\* of the content, cut by the same rule.
C11_Description ==
    \A c \in 1..Len(generated) :
        LET description == Get(tutorial, "description", <<>>)
            content == Get(tutorial, "content", <<>>)
            out == generated[c].description
        IN /\ description # <<>> => FollowsRule(out, description)
           /\ (description = <<>> /\ HasParagraph(content))
                 => FollowsRule(out, FirstParagraph(content))

\* A description of 161 characters was cut to 160.
C11_Witness ==
    /\ generated # <<>>
    /\ "description" \in DOMAIN tutorial
    /\ Len(tutorial.description) = 161
    /\ Len(generated[1].description) = 160
    /\ generated[1].description # tutorial.description

\* The day a date string names
DayOf(date) ==
    [year |-> DigitsValue(SubSeq(date, 1, 4)),
     month |-> DigitsValue(SubSeq(date, 6, 7)),
     day |-> DigitsValue(SubSeq(date, 9, 10))]
DaysSoFar == {n \in 0..MaxDays : \E k \in n..MaxDays : now = DayAfter(FirstDay, k)}

------------------------------------------------------------------------------
(* Reading a document with frontmatter back *)

\* A value of a metadata dict: a string, or a list of strings
Str(text) == [kind |-> "str", text |-> text]
List(items) == [kind |-> "list", items |-> items]

Marker == <<"-", "-", "-", Newline>>

\* Where the line of the closing marker starts: the first line '---' after the
\* opening one
Closings(text) ==
    {i \in 5..Len(text) : text[i - 1] = Newline /\ MatchAt(text, i, Marker)}
Closing(text) == CHOOSE i \in Closings(text) : \A j \in Closings(text) : i <= j

\* '---', YAML, '---', blank line, content
HasFrontmatterForm(text) ==
    /\ MatchAt(text, 1, Marker)
    /\ Closings(text) # {}
    /\ MatchAt(text, Closing(text) + 4, <<Newline>>)
YamlBlock(text) == SubSeq(text, 5, Closing(text) - 1)
Remainder(text) == From(text, Closing(text) + 5)

\* The end of a single-quoted scalar that opens at position 1: the first quote
\* from position i on that is not doubled
RECURSIVE ClosingQuote(_, _)
ClosingQuote(line, i) ==
    IF i > Len(line) THEN 0
    ELSE IF line[i] # "'" THEN ClosingQuote(line, i + 1)
    ELSE IF i < Len(line) /\ line[i + 1] = "'" THEN ClosingQuote(line, i + 2)
    ELSE i

\* '' read as '
RECURSIVE Undoubled(_)
Undoubled(v) ==
    IF v = <<>> THEN <<>>
    ELSE IF Head(v) = "'" /\ Len(v) > 1 /\ v[2] = "'"
            THEN <<"'">> \o Undoubled(Tail(Tail(v)))
            ELSE <<Head(v)>> \o Undoubled(Tail(v))

\* A scalar read back: a quoted one is the string between the quotes, a plain
\* one is a string unless YAML reads it as something else
Other(text) == [kind |-> "other", text |-> text]
ReadScalar(chars) ==
    LET t == strip(chars)
    IN IF t # <<>> /\ Head(t) = "'"
          THEN IF ClosingQuote(t, 2) = Len(t)
                  THEN Str(Undoubled(SubSeq(t, 2, Len(t) - 1)))
                  ELSE Other(t)
          ELSE IF t = <<>> \/ ResolvesToOther(t) \/ Head(t) \in {"-", "[", "{"}
                  \/ Contains(t, <<":", Space>>)
                  THEN Other(t)
                  ELSE Str(t)

\* Where the key of a line ends: the ':' after the closing quote, or the first
\* ':' that ends the line or is followed by a space
KeyEnd(line) ==
    IF Head(line) = "'" THEN ClosingQuote(line, 2) + 1
    ELSE LET ends == {i \in 1..Len(line) :
                        line[i] = ":" /\ (i = Len(line) \/ line[i + 1] = Space)}
         IN IF ends = {} THEN 0 ELSE CHOOSE i \in ends : \A j \in ends : i <= j

IsItem(line) == MatchAt(line, 1, <<"-", Space>>)

\* The entries of a block mapping, line by line: <<key, value>> pairs
RECURSIVE ReadEntries(_)
ReadEntries(lines) ==
    IF lines = <<>> THEN {}
    ELSE LET line == Head(lines)
             k == KeyEnd(line)
             key == ReadScalar(SubSeq(line, 1, k - 1))
             rest == From(line, k + 1)
             n == CHOOSE n \in 0..(Len(lines) - 1) :
                     /\ \A i \in 2..(n + 1) : IsItem(lines[i])
                     /\ n + 2 <= Len(lines) => ~IsItem(lines[n + 2])
             items == [i \in 1..n |-> ReadScalar(From(lines[i + 1], 3))]
         IN IF line = <<>> \/ k = 0 \/ k > Len(line) \/ line[k] # ":"
               THEN {<<Other(line), Other(line)>>}
            ELSE IF rest = <<>>
               THEN {<<key, [kind |-> "list", items |-> items]>>}
                    \cup ReadEntries(From(lines, n + 2))
            ELSE {<<key, IF rest = <<Space, "[", "]">> THEN List(<<>>)
                         ELSE ReadScalar(rest)>>}
                 \cup ReadEntries(Tail(lines))

\* yaml.safe_load of a block: the dict it denotes, or "error"
ReadYaml(block) ==
    LET all == split(block, <<Newline>>)
        lines == SubSeq(all, 1, Len(all) - 1)
        entries == ReadEntries(lines)
        texts == {e[1].text : e \in entries}
        Plain(x) == IF x.kind = "list"
                       THEN List([i \in 1..Len(x.items) |-> x.items[i].text])
                       ELSE x
        Good(x) == IF x.kind = "list"
                      THEN \A i \in 1..Len(x.items) : x.items[i].kind = "str"
                      ELSE x.kind = "str"
    IN IF block = <<"{", "}", Newline>> THEN [kind |-> "dict", value |-> <<>>]
       ELSE IF \/ all[Len(all)] # <<>>
               \/ \E e \in entries : e[1].kind # "str" \/ ~Good(e[2])
               \/ Cardinality(texts) # Cardinality(entries)
               THEN [kind |-> "error"]
               ELSE [kind |-> "dict",
                     value |-> [t \in texts |->
                                  Plain((CHOOSE e \in entries : e[1].text = t)[2])]]

------------------------------------------------------------------------------
(* Reading a run of the pipeline *)

\* The full pipeline runs with tutorial generation asked for and no API key
NoKeyRun ==
    options.generate_tutorials /\ ~options.api_key /\ ~options.scrape_only

\* C13: in a run with generate_tutorials = True and no API key, no
\* TutorialGenerator is built and no LLM call is made; once templates were
\* scraped the tutorials are the scraped templates themselves, metadata is
\* generated for each of them, and the run succeeds unless the metadata file
\* cannot be written.
C13_FallsBack ==
    NoKeyRun =>
        /\ ~llm.built /\ llm.calls = 0
        /\ outputs.tutorials = NoFile /\ "tutorials" \notin raised
        /\ step = "metadata" => pipeline.tutorials = all_templates
        /\ (step \in {"returned", "exited"} /\ all_templates # <<>>) =>
              /\ pipeline.tutorials = all_templates
              /\ Len(pipeline.metadata) = Len(all_templates)
              /\ pipeline.success <=> "metadata" \notin raised

\* Such a run ended with success = True, metadata for two templates and
\* status 0.
C13_Witness ==
    /\ NoKeyRun
    /\ step = "exited"
    /\ pipeline.success /\ exit_status = 0
    /\ Len(pipeline.metadata) = 2
    /\ pipeline.tutorials = all_templates

\* C14: when the write of an output file failed during a run of the full
\* pipeline (a template file, the tutorials file or the metadata file), the
\* run ends with success = False and main exits with status 1.
C14_SaveFailureReported ==
    (~options.scrape_only /\ raised # {} /\ step = "exited") =>
        (~pipeline.success /\ exit_status = 1)

\* A file that was written to its end
Complete(file) == file.kind \in {"json", "yaml"}

\* C15: no step of a run changes a file that an earlier step of the run wrote
\* to its end, whether the step fails or not.
C15_KeepsWrittenFiles ==
    [][/\ \A s \in Instances : Complete(files[s]) => files'[s] = files[s]
       /\ \A k \in DOMAIN outputs : Complete(outputs[k]) => outputs'[k] = outputs[k]
      ]_vars

\* The n8n file and the tutorials file were written, the Zapier file was cut
\* short and the metadata file could not be written: the run failed and the
\* two files are there.
C15_Witness ==
    /\ step = "exited" /\ exit_status = 1
    /\ Complete(files["n8n"]) /\ files["n8n"].count > 0
    /\ files["zapier"] = PartialFile
    /\ Complete(outputs.tutorials)
    /\ "metadata" \in raised

------------------------------------------------------------------------------
(* Reading a run of scrape_all_templates *)

\* The other source
OtherSource(s) == IF s = "n8n" THEN "zapier" ELSE "n8n"

\* C16: when the request of a source failed for good, that source has an empty
\* list and no file, scrape_all_templates goes on (the Zapier scrape starts
\* after a failed n8n scrape, the total is computed after a failed Zapier
\* scrape), the other source keeps what it scraped, and the total counts the
\* records of the sources that succeeded.
C16_NoDataForSource ==
    /\ \A s \in Instances :
          failure[s] = "fetch" =>
              /\ results[s] = <<>>
              /\ files[s] = NoFile
              /\ pc = "all_done" =>
                    /\ invocations = 2
                    /\ results.total = Len(results[OtherSource(s)])
                    /\ failure[OtherSource(s)] = "none" =>
                          files[OtherSource(s)] = TemplateFile(OtherSource(s), results[OtherSource(s)])
    /\ (pc = "n8n_done" /\ failure["n8n"] = "fetch") => ENABLED StartScrape
    /\ (pc = "zapier_done" /\ failure["zapier"] = "fetch") => ENABLED Total

\* The n8n request failed, the Zapier scrape brought records, the run ended.
C16_Witness ==
    /\ pc = "all_done"
    /\ failure["n8n"] = "fetch" /\ failure["zapier"] = "none"
    /\ results.zapier # <<>>
    /\ results.total = Len(results.zapier)
    /\ files["n8n"] = NoFile /\ files["zapier"].kind = "json"

\* C17: a template file that was written to its end holds source, count and
\* templates; its source is the scraper's, count is the number of its records,
\* its records are the list scrape_templates returned, and every record
\* carries the source of the file.
C17_FileShape ==
    \A s \in Instances :
        files[s].kind = "json" =>
            /\ DOMAIN files[s] = {"kind", "source", "count", "templates"}
            /\ files[s].source = s
            /\ files[s].count = Len(files[s].templates)
            /\ files[s].templates = results[s]
            /\ \A i \in 1..Len(files[s].templates) :
                  /\ DOMAIN files[s].templates[i]
                        = {"title", "description", "url", "source"}
                  /\ files[s].templates[i].source = s

\* Both files were written, the n8n one with two records, one of them from an
\* element without tags.
C17_Witness ==
    /\ pc = "all_done"
    /\ files["n8n"].kind = "json" /\ files["n8n"].count = 2
    /\ \E i \in 1..2 : files["n8n"].templates[i].url = <<>>
    /\ files["zapier"].kind = "json" /\ files["zapier"].count = 1

------------------------------------------------------------------------------
(* Reading the headers of a reply *)

\* C18: every reply the handler returns, to OPTIONS, to GET (200 or 500) and
\* to any other method (405), carries Access-Control-Allow-Origin: *.
C18_Cors ==
    (Handled /\ reply.kind = "returned") =>
        /\ reply.statusCode \in {200, 405, 500}
        /\ "allow_origin" \in DOMAIN reply.headers
        /\ reply.headers.allow_origin = "*"

\* A reply with status 500 that carries the header.
C18_Witness ==
    /\ Handled /\ reply.kind = "returned"
    /\ reply.statusCode = 500
    /\ reply.headers.allow_origin = "*"

------------------------------------------------------------------------------
(* Counting the GETs of a limiter period *)

\* The GETs issued within the current period of the limiter, by any scraper,
\* first attempts and retries alike
GetsInPeriod ==
    {i \in 1..Len(gets) :
        gets[i] >= last_reset /\ gets[i] < last_reset + RATE_LIMIT_PERIOD}

\* C20: no more than RATE_LIMIT_CALLS GETs are issued within one period of
\* RATE_LIMIT_PERIOD seconds.
C20_GetsLimited == Cardinality(GetsInPeriod) <= RATE_LIMIT_CALLS

------------------------------------------------------------------------------
(* Reading the sections of an answer *)

\* The lines of the answer parsed, and the positions of its header lines: the
\* lines whose text, blanks at both ends apart, starts with '1.' to '7.' or '##'
AnswerLines == split(parsing.content, <<Newline>>)
StartsSection(line) ==
    LET t == strip(line)
    IN /\ Len(t) >= 2
       /\ \/ t[1] \in {"1", "2", "3", "4", "5", "6", "7"} /\ t[2] = "."
          \/ t[1] = "#" /\ t[2] = "#"
HeaderAt == {i \in 1..Len(AnswerLines) : StartsSection(AnswerLines[i])}

\* The position of the k-th header line, and the lines from it to the next
\* header line (or to the end), both excluded
NthHeader(k) == CHOOSE i \in HeaderAt : Cardinality({j \in HeaderAt : j <= i}) = k
Between(k) ==
    SubSeq(AnswerLines, NthHeader(k) + 1,
           (IF k < Cardinality(HeaderAt) THEN NthHeader(k + 1)
            ELSE Len(AnswerLines) + 1) - 1)

\* C21 as stated: _parse_sections returns one section per header line, in the
\* order of the header lines, and the content of each section is exactly the
\* lines between its header and the next one, joined by newlines; so the lines
\* before the first header are in no section and an answer without a header
\* gives the empty list.
C21_WholeLines ==
    parsing.called =>
        /\ Len(parsing.sections) = Cardinality(HeaderAt)
        /\ \A k \in 1..Len(parsing.sections) :
              /\ parsing.sections[k].title = strip(AnswerLines[NthHeader(k)])
              /\ parsing.sections[k].content = join(<<Newline>>, Between(k))

\* C21, amended: _parse_sections returns one section per header line, in the
\* order of the header lines; the content of each section is the lines between
\* its header and the next one, joined by newlines, with the blanks at both
\* ends of that text removed; the lines before the first header are in no
\* section and an answer without a header gives the empty list.
C21_Sections ==
    parsing.called =>
        /\ Len(parsing.sections) = Cardinality(HeaderAt)
        /\ \A k \in 1..Len(parsing.sections) :
              /\ parsing.sections[k].title = strip(AnswerLines[NthHeader(k)])
              /\ parsing.sections[k].content = strip(join(<<Newline>>, Between(k)))
        /\ HeaderAt = {} => parsing.sections = <<>>

\* An answer with text before its first header and two sections, the first of
\* them with content that lost blanks at its ends, has been parsed.
C21_Witness ==
    /\ parsing.called
    /\ Len(parsing.sections) = 2
    /\ NthHeader(1) > 1
    /\ strip(AnswerLines[1]) # <<>>
    /\ parsing.sections[1].content # <<>>
    /\ parsing.sections[1].content # join(<<Newline>>, Between(1))

------------------------------------------------------------------------------
(* Reading a batch call *)

\* What one item gives when it is generated
OutputOf(item) ==
    IF batch.kind = "metadata" THEN generate_metadata(item, now)
    ELSE generate_tutorial(item)

\* C22: in generate_batch_tutorials and generate_batch_metadata an item that
\* fails neither ends the loop nor raises to the caller: the loop is left only
\* after the last item, every failure is logged, and the call raises only when
\* the tutorials file could not be written. The list built holds the outputs
\* of the items that succeeded, in input order (for the metadata: the items
\* that are dicts with a title), and the file generate_batch_tutorials wrote
\* holds that list and its length as count.
C22_LogAndContinue ==
    batch.kind # "none" =>
        /\ batch.pos # "loop" => batch.idx = Len(batch.items)
        /\ batch.pos = "raised" =>
              batch.kind = "tutorials" /\ batch.saved \in {NoFile, PartialFile}
        /\ batch.warnings = batch.idx - Len(batch.succeeded)
        /\ \A k \in 1..Len(batch.succeeded) :
              /\ batch.succeeded[k] \in 1..batch.idx
              /\ k > 1 => batch.succeeded[k - 1] < batch.succeeded[k]
              /\ batch.items[batch.succeeded[k]] # None
        /\ batch.kind = "metadata" =>
              {batch.succeeded[k] : k \in 1..Len(batch.succeeded)}
                 = {i \in 1..batch.idx :
                       /\ batch.items[i] # None
                       /\ batch.items[i].title # NoTag}
        /\ batch.out = [k \in 1..Len(batch.succeeded) |->
                          OutputOf(batch.items[batch.succeeded[k]])]
        /\ batch.pos = "returned" /\ batch.kind = "tutorials" =>
              batch.saved = [kind |-> "json", count |-> Len(batch.out),
                             tutorials |-> batch.out]

\* generate_batch_tutorials has returned from a list of three templates of
\* which the second failed: the first and the third are returned and saved.
C22_Witness ==
    /\ batch.kind = "tutorials"
    /\ batch.pos = "returned"
    /\ Len(batch.items) = 3
    /\ batch.succeeded = <<1, 3>>
    /\ batch.warnings = 1
    /\ batch.saved # NoFile
    /\ batch.saved.count = 2

------------------------------------------------------------------------------
(* Reading the order of the filter and the limit *)

\* The records matching the requested source among the first L loaded ones.
MatchingOfFirst(L) ==
    SelectSeq(SubSeq(load_templates(data), 1, Min(L, Len(load_templates(data)))),
              LAMBDA t : "source" \in DOMAIN t /\ SameIgnoringCase(t.source, event.source))

\* C23: for a GET with a source s and a limit L >= 0 the reply holds the first
\* L of the loaded records that match s, in load order: the filter is applied
\* to all the loaded records and the limit to what it leaves.
C23_FilterBeforeLimit ==
    \A L \in 0..10 :
       (Ok200 /\ HasSourceFilter /\ event.limit = Literal(L)) =>
          reply.body.templates
             = SubSeq(MatchingLoaded, 1, Min(L, Len(MatchingLoaded)))

\* GET ?source=n8n&limit=1 over a file whose first record does not match:
\* the reply holds the second record, which limiting first would have lost.
C23_Witness ==
    /\ Ok200
    /\ event.source = Str_n8n
    /\ event.limit = <<"1">>
    /\ Len(reply.body.templates) = 1
    /\ Len(load_templates(data)) >= 2
    /\ reply.body.templates[1] = load_templates(data)[2]
    /\ MatchingOfFirst(1) = <<>>

------------------------------------------------------------------------------
(* Reading what load_templates gives the handler *)

\* The records a data file gives: its 'templates' when it is a JSON object
\* that has them, nothing when it is missing, unreadable or malformed
RecordsIn(file) ==
    IF file.kind = "json" /\ "templates" \in DOMAIN file THEN file.templates ELSE <<>>

\* The list load_templates returns is never empty: the records of the n8n
\* file followed by those of the Zapier file, a bad file giving none and
\* leaving the other one loaded, or the sample record when there is none.
LoadedOrSample ==
    /\ load_templates(data) # <<>>
    /\ load_templates(data)
          = IF RecordsIn(data["n8n"]) \o RecordsIn(data["zapier"]) = <<>>
               THEN <<SampleTemplate>>
               ELSE RecordsIn(data["n8n"]) \o RecordsIn(data["zapier"])

\* The limit of the request is absent or an integer.
UsableLimit == event.limit = Absent \/ IsIntLiteral(event.limit)

------------------------------------------------------------------------------
(* Counting the records of a reply *)

\* The limit of the request as an integer (100 when absent).
LimitValue == IF event.limit = Absent THEN DefaultLimit ELSE ParseInt(event.limit)

\* C25: a 200 reply to a GET never holds more records than max(limit, 0),
\* whatever integer the limit is, zero and negative values included, and never
\* more than 100 when the limit is absent.
C25_AtMostLimit ==
    (Ok200 /\ UsableLimit) =>
        Len(reply.body.templates) <= (IF LimitValue > 0 THEN LimitValue ELSE 0)

------------------------------------------------------------------------------
(* Reading a run that scraped nothing *)

\* run_full_pipeline is past its step 1 and no template came from either source.
NothingScraped ==
    /\ ~options.scrape_only
    /\ step \notin {"start", "n8n_scraped", "scraped"}
    /\ results.n8n = <<>>
    /\ results.zapier = <<>>

\* C26: when no template was scraped from either source, run_full_pipeline
\* returns right after step 1: no TutorialGenerator is built and no LLM call
\* made, no metadata is generated, neither the tutorials file nor the metadata
\* file is written, the result holds tutorials = [], metadata = [] and
\* success = False, and main exits with status 1.
C26_StopsAfterScraping ==
    NothingScraped =>
        /\ step \in {"returned", "exited"}
        /\ ~llm.built /\ llm.calls = 0
        /\ pipeline.tutorials = <<>>
        /\ pipeline.metadata = <<>>
        /\ ~pipeline.success
        /\ outputs = [tutorials |-> NoFile, metadata |-> NoFile]
        /\ raised \subseteq {"n8n", "zapier"}
        /\ step = "exited" => exit_status = 1

\* main has exited with status 1 after a run, with tutorials asked for and an
\* API key set, in which n8n could not be fetched and the Zapier page held
\* nothing to extract.
C26_Witness ==
    /\ NothingScraped
    /\ options.generate_tutorials /\ options.api_key
    /\ step = "exited"
    /\ exit_status = 1
    /\ failure["n8n"] = "fetch"
    /\ failure["zapier"] = "none"

------------------------------------------------------------------------------
(* Reading a run of scrape_all_templates whose save failed *)

\* C27: when the file of a source could not be written, scrape_templates
\* raises instead of returning what it extracted: scrape_all_templates keeps
\* the empty list for that source, its total counts the other source alone,
\* and the file is missing or cut short. So a source has a non-empty list only
\* when its file was written to its end in this run, with that list in it.
C27_SavedOrNothing ==
    \A s \in Instances :
       /\ failure[s] = "save" =>
             /\ results[s] = <<>>
             /\ files[s] \in {NoFile, PartialFile}
             /\ pc = "all_done" => results.total = Len(results[OtherSource(s)])
       /\ results[s] # <<>> =>
             /\ failure[s] = "none"
             /\ files[s] = TemplateFile(s, results[s])

\* The run ended: n8n brought a record, the Zapier scraper extracted a record
\* and failed to write its file, and the total is the n8n count.
C27_Witness ==
    /\ pc = "all_done"
    /\ failure["zapier"] = "save"
    /\ inst = "zapier" /\ templates # <<>>
    /\ results.zapier = <<>>
    /\ results.n8n # <<>>
    /\ results.total = Len(results.n8n)

------------------------------------------------------------------------------
(* Reading the sizes of the stages of a run *)

\* run_full_pipeline has returned its results.
PipelineReturned == ~options.scrape_only /\ step \in {"returned", "exited"}

\* No record of Zapier comes before a record of n8n in the list.
N8nFirst(list) ==
    \A i, j \in 1..Len(list) :
       (list[i].source = Str_zapier /\ list[j].source = Str_n8n) => j < i

\* C28: in the results run_full_pipeline returns, there are no more metadata
\* than tutorials and no more tutorials than scraped templates (those of n8n
\* plus those of Zapier); tutorials and metadata keep the n8n records before
\* the Zapier ones; and without tutorial generation the tutorials are the
\* scraped templates, n8n then Zapier, and no LLM call was made.
C28_StagesShrink ==
    PipelineReturned =>
        /\ Len(pipeline.metadata) <= Len(pipeline.tutorials)
        /\ Len(pipeline.tutorials) <= Len(results.n8n) + Len(results.zapier)
        /\ pipeline.scraping = results
        /\ pipeline.scraping.total = Len(results.n8n) + Len(results.zapier)
        /\ N8nFirst(pipeline.tutorials)
        /\ N8nFirst(pipeline.metadata)
        /\ ~options.generate_tutorials =>
              /\ pipeline.tutorials = results.n8n \o results.zapier
              /\ llm.calls = 0

\* A run with tutorial generation returned: a template scraped from each
\* source, the LLM failed on one of them, one tutorial and one metadata entry.
C28_Witness ==
    /\ PipelineReturned
    /\ options.generate_tutorials /\ options.api_key
    /\ results.n8n # <<>> /\ results.zapier # <<>>
    /\ llm.calls = Len(results.n8n) + Len(results.zapier)
    /\ Len(pipeline.tutorials) = 1
    /\ Len(pipeline.metadata) = 1
    /\ pipeline.success

------------------------------------------------------------------------------
(* Measuring the description of the metadata *)

\* C29: the description of every metadata generated is at most 160 characters
\* long, whether it comes from the description of the tutorial, from the first
\* paragraph of its content or from the text built from its title.
C29_DescriptionFits ==
    \A i \in 1..Len(generated) :
       /\ Len(generated[i].description) <= DescriptionLimit
       /\ Len(generated[i].seo.og_description) <= DescriptionLimit

------------------------------------------------------------------------------
(* Reading the sleeps of an invocation that gave up *)

\* The seconds slept in a trace.
RECURSIVE SleptIn(_)
SleptIn(tr) ==
    IF tr = <<>> THEN 0
    ELSE (IF Head(tr)[1] = "sleep" THEN Head(tr)[2] ELSE 0) + SleptIn(Tail(tr))

\* C30: when _make_request has returned after all its N = RETRY_ATTEMPTS GETs
\* failed with a request exception, it has slept N - 1 times, 2^0, ...,
\* 2^(N-2) seconds in that order, 2^(N-1) - 1 seconds in all, each sleep
\* between two GETs and none after the last GET; with N = 1 that is one GET
\* and no sleep; with N <= 0 it has issued no GET, has not slept and returns
\* None.
C30_BackoffBookkeeping ==
    /\ (Returned /\ ~escaped /\ AllGetsFailed(trace) /\ response = None) =>
           IF RETRY_ATTEMPTS >= 1
              THEN /\ NumGets(trace) = RETRY_ATTEMPTS
                   /\ NumSleeps(trace) = RETRY_ATTEMPTS - 1
                   /\ Len(trace) = 2 * RETRY_ATTEMPTS - 1
                   /\ \A j \in 1..RETRY_ATTEMPTS : trace[2 * j - 1][1] = "get"
                   /\ \A j \in 0..(RETRY_ATTEMPTS - 2) :
                         trace[2 * j + 2] = <<"sleep", Pow2(j)>>
                   /\ SleptIn(trace) = Pow2(RETRY_ATTEMPTS - 1) - 1
              ELSE trace = <<>>
    /\ (Returned /\ RETRY_ATTEMPTS <= 0) =>
           response = None /\ ~escaped /\ trace = <<>>

\* All of at least three GETs failed: the call returned None after sleeping
\* 1, 2, ... seconds between them.
C30_Witness ==
    /\ Returned
    /\ RETRY_ATTEMPTS >= 3
    /\ response = None
    /\ AllGetsFailed(trace)
    /\ NumGets(trace) = RETRY_ATTEMPTS
    /\ trace[Len(trace) - 1] = <<"sleep", Pow2(RETRY_ATTEMPTS - 2)>>

====
